---- MODULE Spec2Model ----
(***************************************************************************)
(* unilink: the TCP server wrapper (unilink/wrapper/tcp_server) over the   *)
(* transport channel it drives.  The wrapper is translated from            *)
(* tcp_server.cc.  The transport behind interface::Channel (the session    *)
(* state machine, the reactor's posted work, the TX queue) is not part of  *)
(* the sources at hand and is modelled from sections 4.1-4.3 and 5 of the  *)
(* specification.                                                          *)
(***************************************************************************)
EXTENDS Integers, Sequences, FiniteSets, TLC

\* ------------------------------------------------------------------ bounds

\* Channel objects that exist during one run (one per construction/restart).
MaxChan == 2
\* start() calls one channel object may receive.
MaxStartCalls == 2
\* send() calls made during one run of the TX queue.
MaxSend == 2
\* send()/send_line() calls made during one run with text payloads.
MaxText == 1
\* Length of the strings given to send()/send_line().
MaxLen == 1
\* Peers one server admits in all (the ClientIds it hands out).
MaxClients == 2
\* The largest client limit configured.
MaxLimit == 2
\* The largest max_retries given to enable_port_retry.
MaxRetries == 1
\* The largest retry_interval_ms given to enable_port_retry.
MaxInterval == 1
\* Capacity of the global ring of recent errors; stands for
\* MAX_RECENT_ERRORS (1000), which no bounded run fills.
RecentCap == 3
\* Capacity of a per-component ring; stands for MAX_COMPONENT_ERRORS (100).
ComponentCap == 2
\* report_error calls made in a run that fills the rings.
MaxRecorded == 4
\* report_error calls made in a run that changes the filter.
MaxReports == 1
\* Subscribers registered at a time.
MaxCallbacks == 1
\* report_error calls made in a run that resets the statistics.
MaxCounted == 3
\* Dot-separated fields of the addresses given to a validator.
MaxFields == 5
\* Dot-separated labels of the host names given to a validator.
MaxLabels == 2
\* Chars that follow the number in a device name given to a validator.
MaxTail == 1
\* Length of the strings given to the conversions.
MaxBytes == 3
\* Servers built from one builder.
MaxBuilt == 1
\* Subscribers registered at a time in a run whose subscribers throw.
MaxSubscribed == 2
\* Kinds of handler registered at a time in a run that registers late.
MaxKinds == 1
\* User threads that call start() concurrently.
MaxThreads == 2

\* --------------------------------------------------------------- alphabet

\* '\n' as a char.
NL == 10
\* The chars strings are made of: '\n' and a char with the top bit set (0xE9
\* as a signed char), so that char <-> uint8_t is not the identity.
Chars == {NL, -23}

SeqsUpTo(S, n) ==
    UNION {[1..k -> S] : k \in 0..n}

\* unilink/common/common.hpp: enum class LinkState
LinkState ==
    {"Idle", "Connecting", "Listening", "Connected", "Closed", "Error"}

\* The handlers a user may register; "none" is an empty std::function.
HandlerIds == {"h1"}

\* The handlers registered late: a first one and its replacement.
RegHandlers == {"h1", "h2"}

\* The callbacks of the wrapper, by the name of their registration method.
CallbackKinds ==
    {"on_data", "on_connect", "on_disconnect", "on_error",
     "on_multi_connect", "on_multi_data", "on_multi_disconnect"}

VARIABLES
    \* wrapper::TcpServer fields
    started_, channel_, is_listening_,
    on_data_, on_connect_, on_disconnect_, on_error_,
    on_multi_connect_, on_multi_data_, on_multi_disconnect_,
    port_retry_enabled_, max_port_retries_, port_retry_interval_ms_,
    max_clients_, client_limit_enabled_,
    \* the transport channels, by object identity 1..MaxChan
    chan,
    \* the ClientId the next peer each server admits gets
    next_client_id,
    \* history: the ClientIds the multi-client connect handler was called
    \* with, in call order
    handed,
    \* where each user thread stands inside start()
    pc,
    \* the remote side of a client/serial session: "up" or "down"
    peer,
    \* observation of the last step: the call made, the state reported to
    \* handle_state, the user callbacks invoked
    lastOp, reported, delivered,
    \* channels created since the last effective stop(); send calls made
    creates, sends,
    \* common::ErrorHandler fields
    enabled_, min_level_, stats_, recent_errors_, errors_by_component_, callbacks_,
    \* observation of the last ErrorHandler call: the subscriber calls made,
    \* the lines written to std::cerr, the exception that leaves the call;
    \* history: every error recorded, in order; report_error calls made;
    \* the length of that history at the last reset_stats
    notified, cerr, raised, log, reports, reset_at,
    \* builder::TcpServerBuilder: the builder object and the exception its
    \* last call threw; the io_contexts of the process; the servers built
    builder, thrown, ioc, built,
    \* common::InputValidator: the string a validator is given; the validator
    \* called on it and the exception it threw
    text, verdict,
    \* safe_convert: the bytes string_to_uint8 made of the string, and the
    \* string uint8_to_string made of those bytes
    bytes, back,
    \* the ErrorHandler call each thread is inside; the thread that owns each
    \* of the two mutexes (0: none); the locking calls entered so far
    at, mutex_, stats_mutex_, ncalls,
    \* TcpServer::port_, written by the constructors alone
    port_,
    \* common::MemoryPool: its buckets, its capacity and its statistics; the
    \* buffers each thread owns; the byte arrays allocated so far;
    \* observation of the last pool call: the call and the buffer it returned
    \* or was given
    buckets_, max_pool_size_, pool_stats_, owned, allocated, pool_call

multiVars ==
    <<on_multi_connect_, on_multi_data_, on_multi_disconnect_>>

cfgVars ==
    <<port_retry_enabled_, max_port_retries_, port_retry_interval_ms_,
      max_clients_, client_limit_enabled_>>

wrapperVars ==
    <<started_, channel_, is_listening_, on_data_, on_connect_, on_disconnect_, on_error_,
      multiVars, cfgVars>>

histVars ==
    <<creates, sends>>

\* The state of the error handler, and what is observed of it.
handlerVars ==
    <<enabled_, min_level_, stats_, recent_errors_, errors_by_component_, callbacks_>>

errVars ==
    <<handlerVars, notified, cerr, raised, log, reports, reset_at>>

\* The server wrapper and its transport.
linkVars ==
    <<started_, channel_, is_listening_, on_data_, on_connect_, on_disconnect_,
      on_error_, multiVars, cfgVars, chan, next_client_id, handed, pc, peer, lastOp,
      reported, delivered, creates, sends>>

\* The builder and what it acquires.
builderVars ==
    <<builder, thrown, ioc, built>>

\* The input of a validator and its outcome.
validatorVars ==
    <<text, verdict, bytes, back>>

\* The memory pool and the buffers its callers own.
poolVars ==
    <<buckets_, max_pool_size_, pool_stats_, owned, allocated, pool_call>>

\* What a constructor of the server fixes.
ctorVars ==
    <<port_>>

\* The threads inside the error handler and its two mutexes.
lockVars ==
    <<at, mutex_, stats_mutex_, ncalls>>

vars ==
    <<linkVars, errVars, builderVars, validatorVars, lockVars, ctorVars, poolVars>>

\* ------------------------------------------------------------ conversions

\* Mutant: the conversion drops the top bit.
CharToU8_Low7(c) ==
    c % 128

\* static_cast<uint8_t>(char)
CharToU8(c) ==
    IF c < 0 THEN c + 256 ELSE c

\* static_cast<char>(uint8_t)
U8ToChar(b) ==
    IF b > 127 THEN b - 256 ELSE b

\* safe_convert::string_to_uint8(const std::string&)
string_to_uint8(str) ==
    [i \in 1..Len(str) |-> CharToU8(str[i])]

\* safe_convert::uint8_to_string(data, size)
uint8_to_string(data) ==
    IF Len(data) = 0 THEN <<>> ELSE [i \in 1..Len(data) |-> U8ToChar(data[i])]

\* ---------------------------------------------------------------- channel

Chans == 1..MaxChan

\* The user threads.
Threads == 1..MaxThreads

\* A slot no channel object occupies yet.
NoChan ==
    [kind |-> "none", state |-> "Idle", posted |-> <<>>, open |-> FALSE,
     timer |-> FALSE, txq |-> <<>>, inflight |-> {}, wire |-> <<>>,
     port |-> 0, nStart |-> 0, stopped |-> FALSE, retried |-> FALSE, up |-> FALSE,
     clients |-> {}, limited |-> FALSE, limit |-> 0, cb |-> {},
     retry_on |-> FALSE,
     retry_max |-> 0, retry_ms |-> 0, failed |-> 0, btimer |-> FALSE,
     csent |-> {}]

\* A freshly constructed channel of the given kind.
NewChan(kind) ==
    [NoChan EXCEPT !.kind = kind]

\* The number of channel objects constructed so far.
NumChans ==
    Cardinality({c \in Chans : chan[c].kind # "none"})

\* interface::Channel::is_connected: snapshot of LinkState == Connected
ChanIsConnected(c) ==
    chan[c].state = "Connected"

\* Mutant: is_connected() answers with the started flag.
is_connected_Started ==
    started_

\* TcpServer::is_connected
is_connected ==
    channel_ # 0 /\ ChanIsConnected(channel_)

\* ---------------------------------------------------- wrapper: callbacks

NoCall == <<>>

Call(cb, h, arg, msg) ==
    <<[cb |-> cb, h |-> h, arg |-> arg, msg |-> msg]>>

NoReportRec ==
    [ch |-> 0, state |-> "none"]

\* TcpServer::handle_state, lines 166-170: the is_listening_ update
handle_state_listening(state) ==
    IF state = "Listening" THEN TRUE
    ELSE IF state = "Error" \/ state = "Closed" THEN FALSE
    ELSE is_listening_

\* Mutant: the Connected case is missing from the switch.
handle_state_calls_NoConnected(state) ==
    CASE state = "Closed" ->
           IF on_disconnect_ # "none" THEN Call("on_disconnect", on_disconnect_, <<>>, "") ELSE NoCall
      [] state = "Error" ->
           IF on_error_ # "none" THEN Call("on_error", on_error_, <<>>, "Connection error") ELSE NoCall
      [] OTHER -> NoCall

\* Mutant: the Error case falls through into nothing and the Closed case
\* reports the error, i.e. the two case bodies are swapped.
handle_state_calls_Swapped(state) ==
    CASE state = "Connected" ->
           IF on_connect_ # "none" THEN Call("on_connect", on_connect_, <<>>, "") ELSE NoCall
      [] state = "Error" ->
           IF on_disconnect_ # "none" THEN Call("on_disconnect", on_disconnect_, <<>>, "") ELSE NoCall
      [] state = "Closed" ->
           IF on_error_ # "none" THEN Call("on_error", on_error_, <<>>, "Connection error") ELSE NoCall
      [] OTHER -> NoCall

\* TcpServer::handle_state, lines 172-190: the switch over the state
handle_state_calls(state) ==
    CASE state = "Connected" ->
           IF on_connect_ # "none" THEN Call("on_connect", on_connect_, <<>>, "") ELSE NoCall
      [] state = "Closed" ->
           IF on_disconnect_ # "none" THEN Call("on_disconnect", on_disconnect_, <<>>, "") ELSE NoCall
      [] state = "Error" ->
           IF on_error_ # "none" THEN Call("on_error", on_error_, <<>>, "Connection error") ELSE NoCall
      [] OTHER -> NoCall

\* TcpServer::handle_bytes
handle_bytes_calls(data) ==
    IF on_data_ # "none" THEN Call("on_data", on_data_, uint8_to_string(data), "") ELSE NoCall

\* A step of a user thread reports no state and invokes no callback.
UserStep(name) ==
    /\ lastOp' = name
    /\ reported' = NoReportRec
    /\ delivered' = NoCall
    /\ UNCHANGED <<is_listening_, peer, pc, errVars, builderVars, validatorVars, lockVars, ctorVars, poolVars>>

\* Channel::start(): posts the start to the reactor
ChanStart(r) ==
    [r EXCEPT !.posted = Append(@, [t |-> "start", data |-> <<>>, id |-> 0]), !.nStart = @ + 1]

\* Channel::stop(): posts the stop to the reactor
ChanStop(r) ==
    [r EXCEPT !.posted = Append(@, [t |-> "stop", data |-> <<>>, id |-> 0])]

\* Channel::async_write_copy(data, size): posts the write to the reactor.
\* id numbers the send call the buffer comes from.
async_write_copy(r, data, id) ==
    [r EXCEPT !.posted = Append(@, [t |-> "write", data |-> data, id |-> id])]

\* --------------------------------------------------- wrapper: operations

\* TcpServer::setup_internal_handlers, lines 128-154: the multi-client
\* callbacks registered on a transport server, one for each handler set.
setup_internal_handlers(r) ==
    IF r.kind = "server"
    THEN [r EXCEPT !.cb = {k \in {"connect", "data", "disconnect"} :
                              \/ k = "connect" /\ on_multi_connect_ # "none"
                              \/ k = "data" /\ on_multi_data_ # "none"
                              \/ k = "disconnect" /\ on_multi_disconnect_ # "none"}]
    ELSE r

\* transport::TcpServer::set_client_limit: admission is capped at max_clients.
ChanSetClientLimit(r, max_clients) ==
    [r EXCEPT !.limited = TRUE, !.limit = max_clients]

\* transport::TcpServer::set_unlimited_clients: no admission cap.
ChanSetUnlimitedClients(r) ==
    [r EXCEPT !.limited = FALSE, !.limit = 0]

\* Mutant: start() does not apply the stored client limit.
ApplyClientLimit_Skipped(r) ==
    r

\* TcpServer::start, lines 53-62: the stored client limit is applied; a
\* stored limit of 0 is applied as set_unlimited_clients().
ApplyClientLimit(r) ==
    IF client_limit_enabled_
    THEN IF max_clients_ = 0
         THEN ChanSetUnlimitedClients(r)
         ELSE ChanSetClientLimit(r, max_clients_)
    ELSE r

\* TcpServer::start, lines 42-50: the channel the factory creates from the
\* stored port-retry configuration.
CreateChannel ==
    [NewChan("server") EXCEPT !.port = port_,
                              !.retry_on = port_retry_enabled_,
                              !.retry_max = max_port_retries_,
                              !.retry_ms = port_retry_interval_ms_]

\* Mutant: the early return of start() is missing.
StartGuard_Missing ==
    TRUE

\* TcpServer::start, line 39: if (started_) return;
StartGuard ==
    ~started_

\* TcpServer::start
Start ==
    /\ UserStep("start")
    /\ IF StartGuard
       THEN LET create == channel_ = 0
                c == IF create THEN NumChans + 1 ELSE channel_
            IN  /\ c \in Chans
                /\ chan[c].nStart < MaxStartCalls
                /\ chan' = [chan EXCEPT ![c] =
                              ChanStart(IF create
                                        THEN ApplyClientLimit(setup_internal_handlers(CreateChannel))
                                        ELSE @)]
                /\ channel_' = c
                /\ started_' = TRUE
                /\ creates' = IF create THEN creates + 1 ELSE creates
       ELSE UNCHANGED <<chan, channel_, started_, creates>>
    /\ UNCHANGED <<on_data_, on_connect_, on_disconnect_, on_error_, sends,
                   multiVars, cfgVars, next_client_id, handed>>

\* start() as a thread executes it, statement by statement; nothing in it
\* excludes another thread.

\* A step of user thread t inside start().
ThreadStep(t, next) ==
    /\ pc' = [pc EXCEPT ![t] = next]
    /\ lastOp' = "start"
    /\ reported' = NoReportRec
    /\ delivered' = NoCall
    /\ UNCHANGED <<is_listening_, on_data_, on_connect_, on_disconnect_, on_error_,
                   multiVars, cfgVars, next_client_id, handed, peer, sends, errVars, builderVars, validatorVars, lockVars, ctorVars, poolVars>>

\* TcpServer::start, line 39: if (started_) return;
StartEnter(t) ==
    /\ pc[t] = "idle"
    /\ ThreadStep(t, IF StartGuard THEN "test" ELSE "idle")
    /\ UNCHANGED <<started_, channel_, chan, creates>>

\* TcpServer::start, line 41: if (!channel_)
StartTest(t) ==
    /\ pc[t] = "test"
    /\ ThreadStep(t, IF channel_ = 0 THEN "make" ELSE "run")
    /\ UNCHANGED <<started_, channel_, chan, creates>>

\* TcpServer::start, lines 42-63: create the channel, set it up
StartMake(t) ==
    /\ pc[t] = "make"
    /\ NumChans + 1 \in Chans
    /\ ThreadStep(t, "run")
    /\ chan' = [chan EXCEPT ![NumChans + 1] =
                    ApplyClientLimit(setup_internal_handlers(CreateChannel))]
    /\ channel_' = NumChans + 1
    /\ creates' = creates + 1
    /\ UNCHANGED started_

\* TcpServer::start, lines 65-66: channel_->start(); started_ = true;
StartRun(t) ==
    /\ pc[t] = "run"
    /\ chan[channel_].nStart < MaxStartCalls
    /\ ThreadStep(t, "idle")
    /\ chan' = [chan EXCEPT ![channel_] = ChanStart(@)]
    /\ started_' = TRUE
    /\ UNCHANGED <<channel_, creates>>

\* Mutant: stop() tests only the channel pointer.
StopGuard_ChannelOnly ==
    channel_ # 0

\* TcpServer::stop, line 70: if (!started_ || !channel_) return;
StopGuard ==
    started_ /\ channel_ # 0

\* Mutant: stop() releases the channel without stopping it.
StopCall_Skipped(r) ==
    r

\* TcpServer::stop, line 72: channel_->stop();
StopCall(r) ==
    ChanStop(r)

\* TcpServer::stop
Stop ==
    /\ UserStep("stop")
    /\ IF StopGuard
       THEN /\ chan' = [chan EXCEPT ![channel_] = StopCall(@)]
            /\ channel_' = 0
            /\ started_' = FALSE
            /\ creates' = 0
       ELSE UNCHANGED <<chan, channel_, started_, creates>>
    /\ UNCHANGED <<on_data_, on_connect_, on_disconnect_, on_error_, sends,
                   multiVars, cfgVars, next_client_id, handed>>

\* Mutant: send() tests only the channel pointer.
SendGuard_ChannelOnly ==
    channel_ # 0

\* TcpServer::send, line 80: if (is_connected() && channel_)
SendGuard ==
    is_connected /\ channel_ # 0

\* Mutant: send() hands the buffer to the channel twice.
SendBody_Twice(data) ==
    IF SendGuard
    THEN chan' = [chan EXCEPT ![channel_] =
                     async_write_copy(async_write_copy(@, string_to_uint8(data), sends + 1),
                                      string_to_uint8(data), sends + 1)]
    ELSE UNCHANGED chan

\* TcpServer::send, lines 80-83
SendBody(data) ==
    IF SendGuard
    THEN chan' = [chan EXCEPT ![channel_] = async_write_copy(@, string_to_uint8(data), sends + 1)]
    ELSE UNCHANGED chan

\* TcpServer::send
Send(data) ==
    /\ UserStep("send")
    /\ sends' = sends + 1
    /\ SendBody(data)
    /\ UNCHANGED <<multiVars, cfgVars, next_client_id, handed, started_, channel_, on_data_, on_connect_, on_disconnect_,
                   on_error_, creates>>

\* Mutant: send_line() adds the newline only when the line has none.
LineOf_IfMissing(line) ==
    IF line # <<>> /\ line[Len(line)] = NL THEN line ELSE line \o <<NL>>

\* TcpServer::send_line, line 113: the argument handed to send
LineOf(line) ==
    line \o <<NL>>

\* TcpServer::send_line
SendLine(line) ==
    /\ UserStep("send_line")
    /\ sends' = sends + 1
    /\ SendBody(LineOf(line))
    /\ UNCHANGED <<multiVars, cfgVars, next_client_id, handed, started_, channel_, on_data_, on_connect_, on_disconnect_,
                   on_error_, creates>>

\* TcpServer::on_data
OnData(h) ==
    /\ UserStep("on_data")
    /\ on_data_' = h
    /\ UNCHANGED <<multiVars, cfgVars, next_client_id, handed, started_, channel_, on_connect_, on_disconnect_, on_error_,
                   chan, creates, sends>>

\* TcpServer::on_connect
OnConnect(h) ==
    /\ UserStep("on_connect")
    /\ on_connect_' = h
    /\ UNCHANGED <<multiVars, cfgVars, next_client_id, handed, started_, channel_, on_data_, on_disconnect_, on_error_,
                   chan, creates, sends>>

\* TcpServer::on_disconnect
OnDisconnect(h) ==
    /\ UserStep("on_disconnect")
    /\ on_disconnect_' = h
    /\ UNCHANGED <<multiVars, cfgVars, next_client_id, handed, started_, channel_, on_data_, on_connect_, on_error_,
                   chan, creates, sends>>

\* TcpServer::on_error
OnError(h) ==
    /\ UserStep("on_error")
    /\ on_error_' = h
    /\ UNCHANGED <<multiVars, cfgVars, next_client_id, handed, started_, channel_, on_data_, on_connect_, on_disconnect_,
                   chan, creates, sends>>

\* The dynamic_pointer_cast<transport::TcpServer>(channel_) of the multi-client
\* methods succeeds.
HasServer ==
    channel_ # 0 /\ chan[channel_].kind = "server"

\* Mutant: on_multi_* only stores the handler.
RegisterMulti_StoreOnly(k) ==
    UNCHANGED chan

\* on_multi_*: the transport server gets the forwarding callback of kind k.
RegisterMulti(k) ==
    IF HasServer
    THEN chan' = [chan EXCEPT ![channel_].cb = @ \cup {k}]
    ELSE UNCHANGED chan

\* TcpServer::on_multi_connect
OnMultiConnect(h) ==
    /\ UserStep("on_multi_connect")
    /\ on_multi_connect_' = h
    /\ RegisterMulti("connect")
    /\ UNCHANGED <<started_, channel_, on_data_, on_connect_, on_disconnect_,
                   on_error_, on_multi_data_, on_multi_disconnect_, cfgVars,
                   next_client_id, handed, creates, sends>>

\* TcpServer::on_multi_data
OnMultiData(h) ==
    /\ UserStep("on_multi_data")
    /\ on_multi_data_' = h
    /\ RegisterMulti("data")
    /\ UNCHANGED <<started_, channel_, on_data_, on_connect_, on_disconnect_,
                   on_error_, on_multi_connect_, on_multi_disconnect_, cfgVars,
                   next_client_id, handed, creates, sends>>

\* TcpServer::on_multi_disconnect
OnMultiDisconnect(h) ==
    /\ UserStep("on_multi_disconnect")
    /\ on_multi_disconnect_' = h
    /\ RegisterMulti("disconnect")
    /\ UNCHANGED <<started_, channel_, on_data_, on_connect_, on_disconnect_,
                   on_error_, on_multi_connect_, on_multi_data_, cfgVars,
                   next_client_id, handed, creates, sends>>

\* TcpServer::set_client_limit
SetClientLimit(max_clients) ==
    /\ UserStep("set_client_limit")
    /\ max_clients_' = max_clients
    /\ client_limit_enabled_' = TRUE
    /\ IF HasServer
       THEN chan' = [chan EXCEPT ![channel_] = ChanSetClientLimit(@, max_clients)]
       ELSE UNCHANGED chan
    /\ UNCHANGED <<started_, channel_, on_data_, on_connect_, on_disconnect_,
                   on_error_, multiVars, port_retry_enabled_, max_port_retries_,
                   port_retry_interval_ms_, next_client_id, handed, creates, sends>>

\* TcpServer::set_unlimited_clients
SetUnlimitedClients ==
    /\ UserStep("set_unlimited_clients")
    /\ client_limit_enabled_' = FALSE
    /\ max_clients_' = 0
    /\ IF HasServer
       THEN chan' = [chan EXCEPT ![channel_] = ChanSetUnlimitedClients(@)]
       ELSE UNCHANGED chan
    /\ UNCHANGED <<started_, channel_, on_data_, on_connect_, on_disconnect_,
                   on_error_, multiVars, port_retry_enabled_, max_port_retries_,
                   port_retry_interval_ms_, next_client_id, handed, creates, sends>>

\* TcpServer::enable_port_retry: the settings are stored; an existing channel
\* keeps the configuration it was created with.
EnablePortRetry(enable, max_retries, retry_interval_ms) ==
    /\ UserStep("enable_port_retry")
    /\ port_retry_enabled_' = enable
    /\ max_port_retries_' = max_retries
    /\ port_retry_interval_ms_' = retry_interval_ms
    /\ UNCHANGED <<started_, channel_, on_data_, on_connect_, on_disconnect_,
                   on_error_, multiVars, max_clients_, client_limit_enabled_,
                   chan, next_client_id, handed, creates, sends>>

\* transport::TcpServer::send_to_client: posts the targeted send.
PostSendTo(r, client_id, data) ==
    [r EXCEPT !.posted = Append(@, [t |-> "send_to", data |-> data, id |-> client_id])]

\* TcpServer::send_to_client
SendToClient(client_id, message) ==
    /\ UserStep("send_to_client")
    /\ IF HasServer
       THEN chan' = [chan EXCEPT ![channel_] = PostSendTo(@, client_id, message)]
       ELSE UNCHANGED chan
    /\ sends' = sends + 1
    /\ UNCHANGED <<started_, channel_, on_data_, on_connect_, on_disconnect_,
                   on_error_, multiVars, cfgVars, next_client_id, handed, creates>>

\* TcpServer::get_client_count
get_client_count ==
    IF HasServer THEN Cardinality(chan[channel_].clients) ELSE 0

\* TcpServer::get_connected_clients
get_connected_clients ==
    IF HasServer THEN chan[channel_].clients ELSE {}

\* ------------------------------------------ transport channel (reactor side)

\* History of a channel: up is set while an on_connect delivered for it has
\* not been followed by an on_disconnect.
Matched(r, state) ==
    IF state = "none" THEN r
    ELSE LET calls == handle_state_calls(state)
         IN  IF \E i \in 1..Len(calls) : calls[i].cb = "on_connect"
             THEN [r EXCEPT !.up = TRUE]
             ELSE IF \E i \in 1..Len(calls) : calls[i].cb = "on_disconnect"
             THEN [r EXCEPT !.up = FALSE]
             ELSE r

\* The forwarding callback of kind k the wrapper registered on the server
\* (tcp_server.cc:131-152, 236-273): if (on_multi_x_) on_multi_x_(...).
MultiCall(c, k, h, arg) ==
    IF k \in chan[c].cb /\ h # "none"
    THEN Call("on_multi_" \o k, h, arg, "")
    ELSE NoCall

\* The peers with ids in 1..n that a step of server c removes from the map
\* get their multi-client disconnect callback, in id order.
RECURSIVE DropCalls(_, _, _)
DropCalls(c, r, n) ==
    IF n = 0 THEN NoCall
    ELSE DropCalls(c, r, n - 1) \o
         (IF n \in chan[c].clients \ r.clients
          THEN MultiCall(c, "disconnect", on_multi_disconnect_, <<n>>)
          ELSE NoCall)

\* The channel invokes its on_state callback: TcpServer::handle_state(state).
\* "none": the step changes no LinkState and nothing is reported.
Reactor(c, r, state) ==
    /\ chan' = [chan EXCEPT ![c] = Matched(r, state)]
    /\ lastOp' = "event"
    /\ reported' = IF state = "none" THEN NoReportRec ELSE [ch |-> c, state |-> state]
    /\ delivered' = DropCalls(c, r, MaxClients) \o
                        (IF state = "none" THEN NoCall ELSE handle_state_calls(state))
    /\ is_listening_' = IF state = "none" THEN is_listening_ ELSE handle_state_listening(state)
    /\ UNCHANGED <<multiVars, cfgVars, next_client_id, handed, started_, channel_, on_data_, on_connect_, on_disconnect_,
                   on_error_, peer, pc, creates, sends, errVars, builderVars, validatorVars, lockVars, ctorVars, poolVars>>

\* Write loop: a write is issued only when none is in flight.
IssueWrite(r) ==
    IF r.inflight = {} /\ r.txq # <<>>
    THEN [r EXCEPT !.inflight = {Head(r.txq)}, !.txq = Tail(r.txq)]
    ELSE r

\* Session send on the reactor: queue the buffer, schedule a write if none is
\* in flight; a session that is not Connected discards the buffer.
EnqueueWrite(r, buf) ==
    IF r.state = "Connected"
    THEN IssueWrite([r EXCEPT !.txq = Append(@, buf)])
    ELSE r

\* Session/server stop on the reactor: timer cancelled, descriptor closed, TX
\* queue dropped, state Closed.  A session still in Idle is left alone.
StopNow(r) ==
    IF r.state = "Idle" /\ ~r.open /\ ~r.btimer
    THEN r
    ELSE [r EXCEPT !.state = "Closed", !.open = FALSE, !.timer = FALSE,
                   !.txq = <<>>, !.inflight = {}, !.stopped = TRUE,
                   !.btimer = FALSE, !.clients = {}]

\* Session/server start on the reactor: Idle -> Connecting (a session opens),
\* or the bind attempt of a server; no-op in any other state.
StartNow(r) ==
    IF r.state # "Idle" \/ r.open \/ r.btimer
    THEN r
    ELSE IF r.kind = "client"
         THEN [r EXCEPT !.state = "Connecting", !.open = TRUE]
         ELSE [r EXCEPT !.open = TRUE]

\* Mutant: the targeted send does not look the id up in the map.
SendToNow_NoLookup(r, client_id, data) ==
    [r EXCEPT !.csent = @ \cup {<<client_id, data>>}]

\* Targeted send on the reactor: the bytes go to the peer with that ClientId;
\* no-op if the id is not in the map.
SendToNow(r, client_id, data) ==
    IF client_id \in r.clients
    THEN [r EXCEPT !.csent = @ \cup {<<client_id, data>>}]
    ELSE r

\* The state a step reports: the new state if it differs from the old one.
Changed(old, new) ==
    IF old.state = new.state THEN "none" ELSE new.state

\* Reactor: run the oldest posted work item of channel c (FIFO).
RunPosted(c) ==
    /\ chan[c].posted # <<>>
    /\ LET w == Head(chan[c].posted)
           r == [chan[c] EXCEPT !.posted = Tail(@)]
           n == CASE w.t = "start" -> StartNow(r)
                  [] w.t = "stop" -> StopNow(r)
                  [] w.t = "send_to" -> SendToNow(r, w.id, w.data)
                  [] OTHER -> EnqueueWrite(r, [id |-> w.id, data |-> w.data])
       IN  Reactor(c, n, Changed(r, n))

\* Reactor: the connect/open of a session completes.
OpenOk(c) ==
    /\ chan[c].kind = "client" /\ chan[c].state = "Connecting" /\ chan[c].open
    /\ peer = "up"
    /\ Reactor(c, [chan[c] EXCEPT !.state = "Connected", !.open = FALSE], "Connected")

\* The retry timer armed by an open failure or by leaving Connected.
ArmRetry(r) ==
    [r EXCEPT !.timer = TRUE]

\* Reactor: the connect/open of a session fails; the retry timer is armed.
OpenFail(c) ==
    /\ chan[c].kind = "client" /\ chan[c].state = "Connecting" /\ chan[c].open
    /\ peer = "down"
    /\ Reactor(c, ArmRetry([chan[c] EXCEPT !.open = FALSE]), "none")

\* Mutant: the retry reports the session connected without a new open.
Retry_Direct(r) ==
    [r EXCEPT !.timer = FALSE, !.state = "Connected", !.retried = TRUE]

\* The session after its retry timer fired: Connecting, a new open under way.
Retry(r) ==
    [r EXCEPT !.timer = FALSE, !.state = "Connecting", !.open = TRUE, !.retried = TRUE]

\* Reactor: the retry timer fires.
TimerFires(c) ==
    /\ chan[c].timer
    /\ Reactor(c, Retry(chan[c]), Changed(chan[c], Retry(chan[c])))

\* Reactor: EOF from the peer; the session leaves Connected without stop().
PeerClose(c) ==
    /\ chan[c].kind = "client" /\ chan[c].state = "Connected"
    /\ Reactor(c,
               ArmRetry([chan[c] EXCEPT !.state = "Closed", !.txq = <<>>, !.inflight = {}]),
               "Closed")

\* Reactor: a non-retryable error.
Fatal(c) ==
    /\ chan[c].kind # "none"
    /\ chan[c].state \in {"Connecting", "Connected", "Listening"} \/ chan[c].open
    /\ Reactor(c,
               [chan[c] EXCEPT !.state = "Error", !.open = FALSE, !.timer = FALSE,
                               !.txq = <<>>, !.inflight = {}],
               "Error")

\* Reactor: the bind of a server succeeds.
BindOk(c) ==
    /\ chan[c].kind = "server" /\ chan[c].state = "Idle" /\ chan[c].open
    /\ Reactor(c, [chan[c] EXCEPT !.state = "Listening", !.open = FALSE], "Listening")

\* Port retry leaves a server a further bind attempt after n failed ones.
RetriesLeft(r, n) ==
    r.retry_on /\ n <= r.retry_max

\* Reactor: the bind of a server fails, the port is in use.  With port retry
\* enabled and retries left the retry timer is armed, else the server goes
\* to Error.
BindFail(c) ==
    /\ chan[c].kind = "server" /\ chan[c].state = "Idle" /\ chan[c].open
    /\ LET r == [chan[c] EXCEPT !.failed = @ + 1, !.open = FALSE]
       IN  IF RetriesLeft(r, r.failed)
           THEN Reactor(c, [r EXCEPT !.btimer = TRUE], "none")
           ELSE Reactor(c, [r EXCEPT !.state = "Error"], "Error")

\* Reactor: the port-retry timer fires, the next bind attempt is made.
BindRetry(c) ==
    /\ chan[c].btimer
    /\ Reactor(c, [chan[c] EXCEPT !.btimer = FALSE, !.open = TRUE], "none")

\* A channel of another implementation invokes on_state with any LinkState.
MockReport(c, state) ==
    /\ chan[c].kind = "mock"
    /\ Reactor(c, [chan[c] EXCEPT !.state = state, !.open = FALSE], state)

\* Reactor: a write completes; the next queued buffer is issued.
WriteComplete(c, buf) ==
    /\ buf \in chan[c].inflight
    /\ Reactor(c,
               IssueWrite([chan[c] EXCEPT !.inflight = @ \ {buf}, !.wire = Append(@, buf.id)]),
               "none")

\* Reactor: a read completes with n > 0 bytes: on_bytes -> TcpServer::handle_bytes.
DataArrives(c, data) ==
    /\ chan[c].state = "Connected"
    /\ lastOp' = "event"
    /\ reported' = [ch |-> c, state |-> "none"]
    /\ delivered' = handle_bytes_calls(data)
    /\ UNCHANGED <<wrapperVars, chan, next_client_id, handed, peer, pc, creates, sends,
                   errVars, builderVars, validatorVars, lockVars, ctorVars, poolVars>>

\* A reactor step of server c that reports no LinkState.
ServerStep(c, r, op, calls) ==
    /\ chan' = [chan EXCEPT ![c] = r]
    /\ lastOp' = op
    /\ reported' = [ch |-> c, state |-> "none"]
    /\ delivered' = calls
    /\ UNCHANGED <<wrapperVars, peer, pc, histVars, errVars, builderVars, validatorVars, lockVars, ctorVars, poolVars>>

\* Admission: the limit a server applies (0: no cap).
Full(r) ==
    r.limited /\ Cardinality(r.clients) = r.limit

\* Reactor: a connection is accepted.  At the limit it is closed at once,
\* unnumbered and unannounced; otherwise it gets the next ClientId, enters
\* the map and the multi-client connect callback fires.
Accept(c) ==
    /\ chan[c].kind = "server" /\ chan[c].state = "Listening"
    /\ Full(chan[c]) \/ next_client_id[c] <= MaxClients
    /\ IF Full(chan[c])
       THEN /\ ServerStep(c, chan[c], "reject", NoCall)
            /\ UNCHANGED <<next_client_id, handed>>
       ELSE /\ ServerStep(c, [chan[c] EXCEPT !.clients = @ \cup {next_client_id[c]}],
                          "accept",
                          MultiCall(c, "connect", on_multi_connect_, <<next_client_id[c]>>))
            /\ next_client_id' = [next_client_id EXCEPT ![c] = @ + 1]
            /\ handed' = handed \o
                  [i \in 1..Len(MultiCall(c, "connect", on_multi_connect_, <<0>>))
                      |-> next_client_id[c]]

\* Reactor: a read of peer id completes: the multi-client data callback.
ClientData(c, id, data) ==
    /\ chan[c].kind = "server" /\ id \in chan[c].clients
    /\ ServerStep(c, chan[c], "client_data",
                  MultiCall(c, "data", on_multi_data_, <<id>> \o data))
    /\ UNCHANGED <<next_client_id, handed>>

\* Reactor: peer id closes: it leaves the map and the multi-client disconnect
\* callback fires with its ClientId.
ClientLeaves(c, id) ==
    /\ chan[c].kind = "server" /\ id \in chan[c].clients
    /\ ServerStep(c, [chan[c] EXCEPT !.clients = @ \ {id}], "client_close",
                  DropCalls(c, [chan[c] EXCEPT !.clients = @ \ {id}], MaxClients))
    /\ UNCHANGED <<next_client_id, handed>>

\* The remote side becomes reachable / unreachable.
PeerUp ==
    /\ peer = "down"
    /\ peer' = "up"
    /\ lastOp' = "event"
    /\ reported' = NoReportRec
    /\ delivered' = NoCall
    /\ UNCHANGED <<wrapperVars, chan, next_client_id, handed, pc, histVars, errVars, builderVars, validatorVars, lockVars, ctorVars, poolVars>>

PeerDown ==
    /\ peer = "up"
    /\ peer' = "down"
    /\ lastOp' = "event"
    /\ reported' = NoReportRec
    /\ delivered' = NoCall
    /\ UNCHANGED <<wrapperVars, chan, next_client_id, handed, pc, histVars, errVars, builderVars, validatorVars, lockVars, ctorVars, poolVars>>

\* ---------------------------------------------------------- error handler

\* ErrorLevel, lowest first.
ErrorLevels == <<"INFO", "WARNING", "ERROR", "CRITICAL">>

\* static_cast<int>(level): the position of a level in the order.
LevelRank(level) ==
    CHOOSE i \in 1..Len(ErrorLevels) : ErrorLevels[i] = level

\* The components that report.
Components == {"tcp_server", "tcp_client"}

\* The categories the reporting functions below use.
Categories == {"CONNECTION", "MEMORY", "UNKNOWN"}

\* The ErrorInfo a reporting site constructs; the report_error calls made so
\* far stand for its timestamp.
ErrorInfo(level, category, component, retryable) ==
    [level |-> level, category |-> category, component |-> component,
     retryable |-> retryable, timestamp |-> reports + 1]

\* error_reporting::report_connection_error
report_connection_error(component, retryable) ==
    ErrorInfo("ERROR", "CONNECTION", component, retryable)

\* error_reporting::report_memory_error
report_memory_error(component) ==
    ErrorInfo("CRITICAL", "MEMORY", component, FALSE)

\* error_reporting::report_warning
report_warning(component) ==
    ErrorInfo("WARNING", "UNKNOWN", component, FALSE)

\* error_reporting::report_info
report_info(component) ==
    ErrorInfo("INFO", "UNKNOWN", component, FALSE)

\* The errors reported in a run.
Reported ==
    UNION {{report_connection_error(c, TRUE), report_connection_error(c, FALSE),
            report_memory_error(c), report_warning(c), report_info(c)} :
           c \in Components}

\* ErrorStats after reset(): no error counted, no time of a first error.
NoStats ==
    [total_errors |-> 0,
     errors_by_level |-> [i \in 1..Len(ErrorLevels) |-> 0],
     errors_by_category |-> [k \in Categories |-> 0],
     retryable_errors |-> 0, first_error |-> 0, last_error |-> 0]

\* Mutant: every error overwrites first_error.
update_stats_FirstOverwritten(error) ==
    [total_errors |-> stats_.total_errors + 1,
     errors_by_level |->
         [stats_.errors_by_level EXCEPT ![LevelRank(error.level)] = @ + 1],
     errors_by_category |->
         [stats_.errors_by_category EXCEPT ![error.category] = @ + 1],
     retryable_errors |->
         IF error.retryable THEN stats_.retryable_errors + 1
                            ELSE stats_.retryable_errors,
     first_error |-> error.timestamp,
     last_error |-> error.timestamp]

\* ErrorHandler::update_stats
update_stats(error) ==
    [total_errors |-> stats_.total_errors + 1,
     errors_by_level |->
         [stats_.errors_by_level EXCEPT ![LevelRank(error.level)] = @ + 1],
     errors_by_category |->
         [stats_.errors_by_category EXCEPT ![error.category] = @ + 1],
     retryable_errors |->
         IF error.retryable THEN stats_.retryable_errors + 1
                            ELSE stats_.retryable_errors,
     first_error |->
         IF stats_.first_error = 0 THEN error.timestamp ELSE stats_.first_error,
     last_error |-> error.timestamp]

\* Mutant: a full vector drops the new entry instead of the oldest.
push_back_capped_KeepOldest(errors, error, cap) ==
    IF Len(errors) >= cap THEN errors ELSE Append(errors, error)

\* push_back, then erase from the front what exceeds the capacity
\* (add_to_recent_errors, lines 292-297; add_to_component_errors, 301-309).
push_back_capped(errors, error, cap) ==
    LET pushed == Append(errors, error)
    IN  IF Len(pushed) > cap
        THEN SubSeq(pushed, Len(pushed) - cap + 1, Len(pushed))
        ELSE pushed

\* ErrorHandler::add_to_recent_errors
add_to_recent_errors(error) ==
    push_back_capped(recent_errors_, error, RecentCap)

\* ErrorHandler::add_to_component_errors
add_to_component_errors(error) ==
    [errors_by_component_ EXCEPT
        ![error.component] = push_back_capped(@, error, ComponentCap)]

\* The subscribers of a run, by what their body does when it is called:
\* 1 returns, 2 throws a std::exception, 3 throws something else.
Subscribers == 1..3

Behaviour(callback) ==
    CASE callback = 2 -> "std::exception"
      [] callback = 3 -> "other"
      [] OTHER -> "returns"

\* What a walk over callbacks_ leaves: the calls made, the lines written to
\* std::cerr, the exception that leaves the walk.
Walked(calls, lines, exception) ==
    [calls |-> calls, cerr |-> lines, raised |-> exception]

RECURSIVE notify_from_NoCatch(_, _)
\* Mutant: the loop of notify_callbacks without its try/catch.
notify_from_NoCatch(i, error) ==
    IF i > Len(callbacks_)
    THEN Walked(<<>>, <<>>, "none")
    ELSE LET call == [cb |-> callbacks_[i], error |-> error]
             rest == notify_from_NoCatch(i + 1, error)
         IN  IF Behaviour(callbacks_[i]) = "returns"
             THEN Walked(<<call>> \o rest.calls, rest.cerr, rest.raised)
             ELSE Walked(<<call>>, <<>>, Behaviour(callbacks_[i]))

RECURSIVE notify_from(_, _)
\* ErrorHandler::notify_callbacks, lines 279-288: the loop from the i-th
\* subscriber on; what a subscriber throws is caught and written to std::cerr.
notify_from(i, error) ==
    IF i > Len(callbacks_)
    THEN Walked(<<>>, <<>>, "none")
    ELSE LET call == [cb |-> callbacks_[i], error |-> error]
             rest == notify_from(i + 1, error)
         IN  CASE Behaviour(callbacks_[i]) = "std::exception" ->
                    Walked(<<call>> \o rest.calls,
                           <<"Error in error callback">> \o rest.cerr, rest.raised)
               [] Behaviour(callbacks_[i]) = "other" ->
                    Walked(<<call>> \o rest.calls,
                           <<"Unknown error in error callback">> \o rest.cerr,
                           rest.raised)
               [] OTHER ->
                    Walked(<<call>> \o rest.calls, rest.cerr, rest.raised)

\* ErrorHandler::notify_callbacks: every subscriber, in registration order.
notify_callbacks(error) ==
    notify_from(1, error)

\* An ErrorHandler call that calls no subscriber.
Quiet ==
    /\ notified' = <<>>
    /\ cerr' = <<>>
    /\ raised' = "none"

\* Mutant: report_error does not test the level.
Passes_AnyLevel(error) ==
    enabled_

\* ErrorHandler::report_error, lines 179-185: the two early returns.
Passes(error) ==
    /\ enabled_
    /\ ~(LevelRank(error.level) < LevelRank(min_level_))

\* A call of the error handler: nothing of the server changes.
HandlerStep ==
    UNCHANGED <<linkVars, builderVars, validatorVars, lockVars, ctorVars, poolVars>>

\* ErrorHandler::report_error
report_error(error) ==
    /\ HandlerStep
    /\ reports' = reports + 1
    /\ IF Passes(error)
       THEN /\ stats_' = update_stats(error)
            /\ recent_errors_' = add_to_recent_errors(error)
            /\ errors_by_component_' = add_to_component_errors(error)
            /\ notified' = notify_callbacks(error).calls
            /\ cerr' = notify_callbacks(error).cerr
            /\ raised' = notify_callbacks(error).raised
            /\ log' = Append(log, error)
       ELSE /\ UNCHANGED <<stats_, recent_errors_, errors_by_component_, log>>
            /\ Quiet
    /\ UNCHANGED <<enabled_, min_level_, callbacks_, reset_at>>

\* ErrorHandler::register_callback
register_callback(callback) ==
    /\ HandlerStep
    /\ callbacks_' = Append(callbacks_, callback)
    /\ Quiet
    /\ UNCHANGED <<enabled_, min_level_, stats_, recent_errors_,
                   errors_by_component_, log, reports, reset_at>>

\* ErrorHandler::clear_callbacks
clear_callbacks ==
    /\ HandlerStep
    /\ callbacks_' = <<>>
    /\ Quiet
    /\ UNCHANGED <<enabled_, min_level_, stats_, recent_errors_,
                   errors_by_component_, log, reports, reset_at>>

\* ErrorHandler::set_min_error_level
set_min_error_level(level) ==
    /\ HandlerStep
    /\ min_level_' = level
    /\ Quiet
    /\ UNCHANGED <<enabled_, stats_, recent_errors_, errors_by_component_,
                   callbacks_, log, reports, reset_at>>

\* ErrorHandler::set_enabled
set_enabled(enabled) ==
    /\ HandlerStep
    /\ enabled_' = enabled
    /\ Quiet
    /\ UNCHANGED <<min_level_, stats_, recent_errors_, errors_by_component_,
                   callbacks_, log, reports, reset_at>>

\* Mutant: reset_stats clears the rings as well.
reset_stats_Everything ==
    /\ HandlerStep
    /\ stats_' = NoStats
    /\ recent_errors_' = <<>>
    /\ errors_by_component_' = [c \in Components |-> <<>>]
    /\ reset_at' = Len(log)
    /\ Quiet
    /\ UNCHANGED <<enabled_, min_level_, callbacks_, log, reports>>

\* ErrorHandler::reset_stats
reset_stats ==
    /\ HandlerStep
    /\ stats_' = NoStats
    /\ reset_at' = Len(log)
    /\ Quiet
    /\ UNCHANGED <<enabled_, min_level_, recent_errors_, errors_by_component_,
                   callbacks_, log, reports>>

\* ErrorHandler::get_recent_errors
get_recent_errors(count) ==
    IF Len(recent_errors_) > count
    THEN SubSeq(recent_errors_, Len(recent_errors_) - count + 1, Len(recent_errors_))
    ELSE recent_errors_

\* ErrorHandler::get_errors_by_component
get_errors_by_component(component) ==
    errors_by_component_[component]

\* ErrorHandler::has_errors
has_errors(component) ==
    errors_by_component_[component] # <<>>

\* ErrorHandler::get_error_count
get_error_count(component, level) ==
    Len(SelectSeq(errors_by_component_[component], LAMBDA error : error.level = level))

\* The handler as constructed: enabled, every level passes, nothing recorded,
\* no subscriber.
InitHandler ==
    /\ enabled_ = TRUE
    /\ min_level_ = ErrorLevels[1]
    /\ stats_ = NoStats
    /\ recent_errors_ = <<>>
    /\ errors_by_component_ = [c \in Components |-> <<>>]
    /\ callbacks_ = <<>>
    /\ notified = <<>> /\ cerr = <<>> /\ raised = "none"
    /\ log = <<>> /\ reports = 0 /\ reset_at = 0

\* ------------------------------------------- the error handler's mutexes

\* The locking calls made in a run, over all threads.
MaxCalls == 3

\* The ErrorHandler calls that take a mutex; has_errors stands for the four
\* queries, which lock alike.
LockedCalls ==
    {"report_error", "register_callback", "clear_callbacks", "get_error_stats",
     "reset_stats", "has_errors"}

\* Mutant: reset_stats takes mutex_ while it holds stats_mutex_.
Locks_StatsFirst(call) ==
    CASE call = "report_error" -> <<"mutex_", "stats_mutex_">>
      [] call = "reset_stats" -> <<"stats_mutex_", "mutex_">>
      [] call = "get_error_stats" -> <<"stats_mutex_">>
      [] OTHER -> <<"mutex_">>

\* The lock_guards a call constructs, outermost first: report_error locks
\* mutex_ and, inside update_stats, stats_mutex_; get_error_stats and
\* reset_stats lock stats_mutex_; every other call locks mutex_.
Locks(call) ==
    CASE call = "report_error" -> <<"mutex_", "stats_mutex_">>
      [] call \in {"get_error_stats", "reset_stats"} -> <<"stats_mutex_">>
      [] OTHER -> <<"mutex_">>

\* The argument of a call that takes no ErrorInfo.
NoErrorInfo ==
    [level |-> "none"]

\* A thread outside the error handler.
Idle ==
    [call |-> "none", error |-> NoErrorInfo, held |-> 0, leaving |-> FALSE]

\* The thread that owns a mutex.
Owner(m) ==
    IF m = "mutex_" THEN mutex_ ELSE stats_mutex_

\* The mutex a thread is blocked on or about to lock, if any.
Wants(t) ==
    IF at[t].call # "none" /\ ~at[t].leaving /\ at[t].held < Len(Locks(at[t].call))
    THEN Locks(at[t].call)[at[t].held + 1]
    ELSE "none"

\* A step of a thread inside the error handler: nothing of the server changes.
LockedStep ==
    UNCHANGED <<linkVars, builderVars, validatorVars, ctorVars, poolVars>>

\* A thread calls the error handler. report_error returns at once when the
\* handler is disabled or the level is below the minimum.
Enter(t, call) ==
    /\ LockedStep
    /\ at[t].call = "none"
    /\ ncalls < MaxCalls
    /\ ncalls' = ncalls + 1
    /\ LET error == IF call = "report_error" THEN report_warning("tcp_server")
                                             ELSE NoErrorInfo
       IN  /\ at' = IF call = "report_error" /\ ~Passes(error)
                    THEN at
                    ELSE [at EXCEPT ![t] = [call |-> call, error |-> error,
                                            held |-> 0, leaving |-> FALSE]]
           /\ reports' = IF call = "report_error" THEN reports + 1 ELSE reports
    /\ UNCHANGED <<handlerVars, notified, cerr, raised, log, reset_at,
                   mutex_, stats_mutex_>>

\* std::lock_guard's constructor: the thread takes the next mutex of its
\* call once no thread owns it.
lock(t) ==
    /\ LockedStep
    /\ Wants(t) # "none"
    /\ Owner(Wants(t)) = 0
    /\ mutex_' = IF Wants(t) = "mutex_" THEN t ELSE mutex_
    /\ stats_mutex_' = IF Wants(t) = "stats_mutex_" THEN t ELSE stats_mutex_
    /\ at' = [at EXCEPT ![t].held = @ + 1]
    /\ UNCHANGED <<errVars, ncalls>>

\* What a call does under the innermost mutex it holds.
Body(call, m, error) ==
    CASE call = "report_error" /\ m = "stats_mutex_" ->
           /\ stats_' = update_stats(error)
           /\ UNCHANGED <<recent_errors_, errors_by_component_, callbacks_,
                          notified, cerr, raised, log, reset_at>>
      [] call = "report_error" /\ m = "mutex_" ->
           /\ recent_errors_' = add_to_recent_errors(error)
           /\ errors_by_component_' = add_to_component_errors(error)
           /\ notified' = notify_callbacks(error).calls
           /\ cerr' = notify_callbacks(error).cerr
           /\ raised' = notify_callbacks(error).raised
           /\ log' = Append(log, error)
           /\ UNCHANGED <<stats_, callbacks_, reset_at>>
      [] call = "register_callback" /\ m = "mutex_" ->
           /\ callbacks_' = Append(callbacks_, 1)
           /\ UNCHANGED <<stats_, recent_errors_, errors_by_component_,
                          notified, cerr, raised, log, reset_at>>
      [] call = "clear_callbacks" /\ m = "mutex_" ->
           /\ callbacks_' = <<>>
           /\ UNCHANGED <<stats_, recent_errors_, errors_by_component_,
                          notified, cerr, raised, log, reset_at>>
      [] call = "reset_stats" /\ m = "stats_mutex_" ->
           /\ stats_' = NoStats
           /\ reset_at' = Len(log)
           /\ UNCHANGED <<recent_errors_, errors_by_component_, callbacks_,
                          notified, cerr, raised, log>>
      [] OTHER ->
           UNCHANGED <<stats_, recent_errors_, errors_by_component_, callbacks_,
                       notified, cerr, raised, log, reset_at>>

\* The end of a lock_guard's scope: the thread runs what the call does
\* under its innermost mutex and releases it; with the outermost released
\* the call returns.
unlock(t) ==
    /\ LockedStep
    /\ at[t].held > 0
    /\ at[t].leaving \/ at[t].held = Len(Locks(at[t].call))
    /\ LET m == Locks(at[t].call)[at[t].held]
       IN  /\ Body(at[t].call, m, at[t].error)
           /\ mutex_' = IF m = "mutex_" THEN 0 ELSE mutex_
           /\ stats_mutex_' = IF m = "stats_mutex_" THEN 0 ELSE stats_mutex_
    /\ at' = [at EXCEPT ![t] = IF at[t].held = 1
                               THEN Idle
                               ELSE [@ EXCEPT !.held = @ - 1, !.leaving = TRUE]]
    /\ UNCHANGED <<enabled_, min_level_, reports, ncalls>>

\* No thread is inside the error handler, no mutex is owned.
InitLocks ==
    /\ at = [t \in Threads |-> Idle]
    /\ mutex_ = 0 /\ stats_mutex_ = 0
    /\ ncalls = 0

\* ------------------------------------------------------------ memory pool

\* The capacity a pool is constructed with; the byte arrays allocated in a
\* run and the requests the pool serves: one more than the pool can hold.
MaxPool == 2

MaxBuffers ==
    MaxPool + 1

MaxAcquires ==
    MaxPool + 1

\* enum class BufferSize
SMALL == 1024
MEDIUM == 4096
LARGE == 16384
XLARGE == 65536

\* The size classes, smallest first: std::array<PoolBucket, 4> buckets_.
BufferSize ==
    <<SMALL, MEDIUM, LARGE, XLARGE>>

\* MemoryPool::get_bucket_index: the smallest class that fits the size.
get_bucket_index(size) ==
    CHOOSE b \in 1..Len(BufferSize) :
        /\ size <= BufferSize[b]
        /\ \A a \in 1..(b - 1) : size > BufferSize[a]

\* A std::unique_ptr<uint8_t[]> that owns nothing.
NullBuffer ==
    [id |-> 0, size |-> 0]

\* A PoolBucket with no buffer.
NoBucket ==
    [buffers_ |-> <<>>, free_indices_ |-> <<>>]

\* PoolStats of a pool of the given capacity that has served nothing.
NoPoolStats(max_pool_size) ==
    [total_allocations |-> 0, pool_hits |-> 0, pool_misses |-> 0,
     current_pool_size |-> 0, max_pool_size |-> max_pool_size]

\* A pool call: nothing of the rest changes.
PoolStep ==
    UNCHANGED <<linkVars, errVars, builderVars, validatorVars, lockVars, ctorVars>>

\* Mutant: a request of 0 bytes is served like any other.
EmptyRequest_Served(size) ==
    FALSE

\* acquire(size): the request that gets an empty owner.
EmptyRequest(size) ==
    size = 0

\* Mutant: a buffer taken from the free list stays on it.
Taken_StaysFree(bucket) ==
    [bucket EXCEPT !.buffers_[Head(bucket.free_indices_)].in_use = TRUE]

\* acquire, hit: the buffer at the head of the free-index queue leaves the
\* queue and is marked in use.
Taken(bucket) ==
    [bucket EXCEPT !.buffers_[Head(bucket.free_indices_)].in_use = TRUE,
                   !.free_indices_ = Tail(@)]

\* acquire, miss: the bucket grows by a BufferInfo in use.  (last_used,
\* which only cleanup_old_buffers reads, is not kept: see there.)
Grown(bucket, id) ==
    [bucket EXCEPT !.buffers_ = Append(@, [data |-> id, in_use |-> TRUE])]

\* The index of the BufferInfo of a bucket that tracks a byte array, 0 if none.
IndexOf(bucket, id) ==
    IF \E i \in 1..Len(bucket.buffers_) : bucket.buffers_[i].data = id
    THEN CHOOSE i \in 1..Len(bucket.buffers_) : bucket.buffers_[i].data = id
    ELSE 0

\* release of a buffer the bucket tracks: the buffer is marked free and its
\* index appended to the free-index queue.
Returned(bucket, i) ==
    [bucket EXCEPT !.buffers_[i].in_use = FALSE,
                   !.free_indices_ = Append(@, i)]

\* release of a buffer the bucket does not track, below capacity: the
\* bucket takes it in as a free buffer.
Adopted(bucket, id) ==
    [bucket EXCEPT !.buffers_ = Append(@, [data |-> id, in_use |-> FALSE]),
                   !.free_indices_ = Append(@, Len(bucket.buffers_) + 1)]

\* What a pool call is observed to do.
PoolCall(op, size, buffer) ==
    [op |-> op, empty |-> (size = 0), buffer |-> buffer.id]

\* MemoryPool::acquire(size) called by thread t.  An empty request gets an
\* empty owner; a request above XLARGE is allocated directly, outside the
\* pool; otherwise the bucket of the class serves a free buffer (hit), or
\* a new one (miss), which the bucket tracks while the pool is below its
\* capacity.
acquire(t, size) ==
    /\ PoolStep
    /\ pool_stats_.total_allocations < MaxAcquires
    /\ IF EmptyRequest(size)
       THEN /\ pool_call' = PoolCall("acquire", size, NullBuffer)
            /\ UNCHANGED <<buckets_, pool_stats_, owned, allocated>>
       ELSE IF size > XLARGE
       THEN /\ allocated < MaxBuffers
            /\ allocated' = allocated + 1
            /\ pool_call' = PoolCall("acquire", size, [id |-> allocated + 1, size |-> size])
            /\ owned' = [owned EXCEPT ![t] = @ \cup {[id |-> allocated + 1, size |-> size]}]
            /\ UNCHANGED <<buckets_, pool_stats_>>
       ELSE LET b == get_bucket_index(size)
                bucket == buckets_[b]
            IN  IF bucket.free_indices_ # <<>>
                THEN LET buffer == [id |-> bucket.buffers_[Head(bucket.free_indices_)].data,
                                    size |-> size]
                     IN  /\ buckets_' = [buckets_ EXCEPT ![b] = Taken(bucket)]
                         /\ pool_stats_' = [pool_stats_ EXCEPT !.total_allocations = @ + 1,
                                                               !.pool_hits = @ + 1]
                         /\ pool_call' = PoolCall("acquire", size, buffer)
                         /\ owned' = [owned EXCEPT ![t] = @ \cup {buffer}]
                         /\ UNCHANGED allocated
                ELSE LET buffer == [id |-> allocated + 1, size |-> size]
                         room == pool_stats_.current_pool_size < max_pool_size_
                     IN  /\ allocated < MaxBuffers
                         /\ allocated' = allocated + 1
                         /\ buckets_' = IF room
                                        THEN [buckets_ EXCEPT ![b] = Grown(bucket, buffer.id)]
                                        ELSE buckets_
                         /\ pool_stats_' =
                                [pool_stats_ EXCEPT
                                    !.total_allocations = @ + 1,
                                    !.pool_misses = @ + 1,
                                    !.current_pool_size = IF room THEN @ + 1 ELSE @]
                         /\ pool_call' = PoolCall("acquire", size, buffer)
                         /\ owned' = [owned EXCEPT ![t] = @ \cup {buffer}]
    /\ UNCHANGED max_pool_size_

\* MemoryPool::release(buffer, size) called by thread t with a buffer it
\* owns, or with none.  A null buffer is ignored; a buffer above XLARGE is
\* freed; a buffer its bucket tracks goes back on the free list; any other
\* is taken in while the pool is below its capacity and freed otherwise.
release(t, buffer, size) ==
    /\ PoolStep
    /\ pool_call' = PoolCall("release", size, buffer)
    /\ IF buffer = NullBuffer
       THEN UNCHANGED <<buckets_, pool_stats_, owned>>
       ELSE /\ owned' = [owned EXCEPT ![t] = @ \ {buffer}]
            /\ IF size > XLARGE
               THEN UNCHANGED <<buckets_, pool_stats_>>
               ELSE LET b == get_bucket_index(size)
                        bucket == buckets_[b]
                        i == IndexOf(bucket, buffer.id)
                    IN  IF i # 0
                        THEN /\ buckets_' = [buckets_ EXCEPT ![b] = Returned(bucket, i)]
                             /\ UNCHANGED pool_stats_
                        ELSE IF pool_stats_.current_pool_size < max_pool_size_
                        THEN /\ buckets_' = [buckets_ EXCEPT ![b] = Adopted(bucket, buffer.id)]
                             /\ pool_stats_' = [pool_stats_ EXCEPT !.current_pool_size = @ + 1]
                        ELSE UNCHANGED <<buckets_, pool_stats_>>
    /\ UNCHANGED <<max_pool_size_, allocated>>

\* The byte arrays on the free list of a bucket.
FreeData(bucket) ==
    {bucket.buffers_[bucket.free_indices_[k]].data : k \in 1..Len(bucket.free_indices_)}

\* A bucket after cleanup has dropped the free buffers in old: the
\* free-index queue names the free buffers kept, in the order it had.
Cleaned(bucket, old) ==
    LET kept == SelectSeq(bucket.buffers_, LAMBDA info : info.data \notin old)
        queue == [k \in 1..Len(bucket.free_indices_) |->
                     bucket.buffers_[bucket.free_indices_[k]].data]
        stay == SelectSeq(queue, LAMBDA id : id \notin old)
    IN  [buffers_ |-> kept,
         free_indices_ |->
             [k \in 1..Len(stay) |->
                 CHOOSE i \in 1..Len(kept) : kept[i].data = stay[k]]]

\* MemoryPool::cleanup_old_buffers(max_age): the free buffers last used more
\* than max_age ago leave every bucket.  Which free buffers are that old
\* depends on the time that has passed: old is any set of free buffers.
cleanup_old_buffers(old) ==
    /\ PoolStep
    /\ old \subseteq UNION {FreeData(buckets_[b]) : b \in DOMAIN buckets_}
    /\ buckets_' = [b \in DOMAIN buckets_ |-> Cleaned(buckets_[b], old)]
    /\ pool_stats_' = [pool_stats_ EXCEPT !.current_pool_size = @ - Cardinality(old)]
    /\ pool_call' = PoolCall("cleanup_old_buffers", 0, NullBuffer)
    /\ UNCHANGED <<max_pool_size_, owned, allocated>>

\* MemoryPool::MemoryPool(0, MaxPool): the buckets are empty, nothing is
\* owned.
InitPool ==
    /\ max_pool_size_ = MaxPool
    /\ buckets_ = [b \in 1..Len(BufferSize) |-> NoBucket]
    /\ pool_stats_ = NoPoolStats(max_pool_size_)
    /\ owned = [t \in Threads |-> {}]
    /\ allocated = 0
    /\ pool_call = PoolCall("none", 0, NullBuffer)

\* ----------------------------------------------------- server builder

\* The largest uint16_t.
MaxPort == 65535

\* SIZE_MAX, the limit a new builder holds; the largest integer of the
\* model stands for it.
SIZE_MAX == 2147483647

\* Mutant: validate_port accepts every port.
validate_port_Any(port) ==
    "none"

\* InputValidator::validate_port: the exception it throws, if any.
validate_port(port) ==
    IF port = 0 THEN "ValidationException" ELSE "none"

\* No builder object: nothing has been constructed.
NoBuilder ==
    [made |-> FALSE, port_ |-> 0, auto_start_ |-> FALSE,
     use_independent_context_ |-> FALSE,
     max_clients_ |-> SIZE_MAX, client_limit_set_ |-> FALSE]

\* IoContextManager before its first use: the shared io_context is not
\* running, no independent io_context was created and none exists.
NoContexts ==
    [running |-> FALSE, created |-> 0, live |-> {}]

\* A call of the builder: server and error handler are left alone.
BuilderStep ==
    UNCHANGED <<linkVars, errVars, validatorVars, lockVars, ctorVars, poolVars>>

\* TcpServerBuilder::TcpServerBuilder(uint16_t port)
TcpServerBuilder(port) ==
    /\ BuilderStep
    /\ ~builder.made
    /\ IF validate_port(port) = "ValidationException"
       THEN /\ thrown' = "BuilderException"
            /\ UNCHANGED builder
       ELSE /\ thrown' = "none"
            /\ builder' = [NoBuilder EXCEPT !.made = TRUE, !.port_ = port]
    /\ UNCHANGED <<ioc, built>>

\* A call of a setter that only stores what it is given.
Stored(field, value) ==
    /\ BuilderStep
    /\ builder.made
    /\ builder' = [builder EXCEPT ![field] = value]
    /\ thrown' = "none"
    /\ UNCHANGED <<ioc, built>>

\* TcpServerBuilder::auto_start
auto_start(start) ==
    Stored("auto_start_", start)

\* TcpServerBuilder::use_independent_context
use_independent_context(use_independent) ==
    Stored("use_independent_context_", use_independent)

\* Mutant: max_clients stores the limit before it tests it.
max_clients_StoredFirst(max) ==
    /\ BuilderStep
    /\ builder.made
    /\ builder' = [builder EXCEPT !.max_clients_ = max, !.client_limit_set_ = TRUE]
    /\ thrown' = IF max = 0 \/ max = 1 THEN "std::invalid_argument" ELSE "none"
    /\ UNCHANGED <<ioc, built>>

\* TcpServerBuilder::max_clients
max_clients(max) ==
    /\ BuilderStep
    /\ builder.made
    /\ IF max = 0 \/ max = 1
       THEN /\ thrown' = "std::invalid_argument"
            /\ UNCHANGED builder
       ELSE /\ thrown' = "none"
            /\ builder' = [builder EXCEPT !.max_clients_ = max,
                                           !.client_limit_set_ = TRUE]
    /\ UNCHANGED <<ioc, built>>

\* TcpServerBuilder::multi_client
multi_client(max) ==
    /\ BuilderStep
    /\ builder.made
    /\ IF max = 0 \/ max = 1
       THEN /\ thrown' = "std::invalid_argument"
            /\ UNCHANGED builder
       ELSE /\ thrown' = "none"
            /\ builder' = [builder EXCEPT !.max_clients_ = max,
                                           !.client_limit_set_ = TRUE]
    /\ UNCHANGED <<ioc, built>>

\* TcpServerBuilder::single_client
single_client ==
    /\ BuilderStep
    /\ builder.made
    /\ builder' = [builder EXCEPT !.max_clients_ = 1, !.client_limit_set_ = TRUE]
    /\ thrown' = "none"
    /\ UNCHANGED <<ioc, built>>

\* TcpServerBuilder::unlimited_clients
unlimited_clients ==
    /\ BuilderStep
    /\ builder.made
    /\ builder' = [builder EXCEPT !.max_clients_ = 0, !.client_limit_set_ = TRUE]
    /\ thrown' = "none"
    /\ UNCHANGED <<ioc, built>>

\* TcpServerBuilder::build, lines 56-64: an independent io_context is
\* created and goes out of scope at the end of its block; otherwise the
\* shared io_context is made to run.
ManageContext ==
    IF builder.use_independent_context_
    THEN [ioc EXCEPT !.created = @ + 1]
    ELSE [ioc EXCEPT !.running = TRUE]

\* TcpServerBuilder::build, lines 66-93: the server is constructed from the
\* port alone (context 0: no io_context is handed to it), then the stored
\* limit is applied with set_unlimited_clients or set_client_limit.
NewServer ==
    [port |-> builder.port_,
     context |-> 0,
     use_independent_context |-> builder.use_independent_context_,
     max_clients_ |-> builder.max_clients_,
     client_limit_enabled_ |-> builder.max_clients_ # 0,
     auto_start |-> builder.auto_start_]

\* Mutant: build tests the client limit after it has set up the io_context.
build_LateTest ==
    /\ BuilderStep
    /\ builder.made
    /\ ioc' = ManageContext
    /\ IF ~builder.client_limit_set_
       THEN /\ thrown' = "std::runtime_error"
            /\ UNCHANGED built
       ELSE /\ thrown' = "none"
            /\ built' = Append(built, NewServer)
    /\ UNCHANGED builder

\* TcpServerBuilder::build
build ==
    /\ BuilderStep
    /\ builder.made
    /\ IF ~builder.client_limit_set_
       THEN /\ thrown' = "std::runtime_error"
            /\ UNCHANGED <<ioc, built>>
       ELSE /\ thrown' = "none"
            /\ ioc' = ManageContext
            /\ built' = Append(built, NewServer)
    /\ UNCHANGED builder

\* Before any builder is constructed.
InitBuilder ==
    /\ builder = NoBuilder
    /\ thrown = "none"
    /\ ioc = NoContexts
    /\ built = <<>>

\* ----------------------------------------------------- input validator

\* A std::string is the sequence of its chars, each written as a string of
\* length one.

\* InputValidator constants.
MAX_HOSTNAME_LENGTH == 253

MAX_DEVICE_PATH_LENGTH == 256

\* is_valid_hostname, line 162: the longest label.
MaxLabelLength == 63

\* INT_MAX, the largest value std::stoi returns.
INT_MAX == 2147483647

\* The decimal digits, by value: DigitChars[v + 1] is the digit of value v.
DigitChars == <<"0", "1", "2", "3", "4", "5", "6", "7", "8", "9">>

\* std::isdigit, in the "C" locale.
isdigit(c) ==
    \E i \in 1..Len(DigitChars) : DigitChars[i] = c

\* std::isalnum, in the "C" locale.
isalnum(c) ==
    \/ isdigit(c)
    \/ c \in {"a", "b", "c", "d", "e", "f", "g", "h", "i", "j", "k", "l", "m",
              "n", "o", "p", "q", "r", "s", "t", "u", "v", "w", "x", "y", "z",
              "A", "B", "C", "D", "E", "F", "G", "H", "I", "J", "K", "L", "M",
              "N", "O", "P", "Q", "R", "S", "T", "U", "V", "W", "X", "Y", "Z"}

\* [0-9a-fA-F] of the IPv6 pattern.
isxdigit(c) ==
    \/ isdigit(c)
    \/ c \in {"a", "b", "c", "d", "e", "f", "A", "B", "C", "D", "E", "F"}

\* std::isspace, in the "C" locale, on the chars of the model.
isspace(c) ==
    c = " "

\* The first position of delim in str, 0 if there is none.
find(str, delim) ==
    IF \E i \in 1..Len(str) : str[i] = delim
    THEN CHOOSE i \in 1..Len(str) :
             str[i] = delim /\ \A j \in 1..(i - 1) : str[j] # delim
    ELSE 0

RECURSIVE getlines(_, _)
\* while (std::getline(ss, token, delim)) push_back(token): getline fails
\* once the stream is at its end, so a delimiter that ends the string is
\* followed by no token.
getlines(str, delim) ==
    IF str = <<>> THEN <<>>
    ELSE IF find(str, delim) = 0 THEN <<str>>
    ELSE <<SubSeq(str, 1, find(str, delim) - 1)>>
             \o getlines(SubSeq(str, find(str, delim) + 1, Len(str)), delim)

RECURSIVE split(_, _)
\* The fields a delimiter separates: one more than there are delimiters.
split(str, delim) ==
    IF find(str, delim) = 0 THEN <<str>>
    ELSE <<SubSeq(str, 1, find(str, delim) - 1)>>
             \o split(SubSeq(str, find(str, delim) + 1, Len(str)), delim)

\* What a conversion returns: a value, or the exception it throws.
Converted(value) ==
    [thrown |-> "none", value |-> value]

Throws(exception) ==
    [thrown |-> exception, value |-> 0]

\* The value of a digit.
DigitValue(c) ==
    (CHOOSE i \in 1..Len(DigitChars) : DigitChars[i] = c) - 1

RECURSIVE accumulate(_, _, _)
\* The digits of str from position i on, added to acc; what exceeds INT_MAX
\* is out of range.
accumulate(str, i, acc) ==
    IF i > Len(str) \/ ~isdigit(str[i]) THEN Converted(acc)
    ELSE IF acc > (INT_MAX - DigitValue(str[i])) \div 10 THEN Throws("std::out_of_range")
    ELSE accumulate(str, i + 1, acc * 10 + DigitValue(str[i]))

\* std::stoi(str): leading white space is skipped, a sign is taken, then
\* the longest run of digits is converted; what follows it is ignored.
\* Without a digit there std::invalid_argument is thrown.
stoi(str) ==
    LET blanks == IF \E i \in 1..Len(str) : ~isspace(str[i])
                  THEN (CHOOSE i \in 1..Len(str) :
                           ~isspace(str[i]) /\ \A j \in 1..(i - 1) : isspace(str[j])) - 1
                  ELSE Len(str)
        signed == blanks < Len(str) /\ str[blanks + 1] \in {"+", "-"}
        first == IF signed THEN blanks + 2 ELSE blanks + 1
        digits == accumulate(str, first, 0)
    IN  IF first > Len(str) \/ ~isdigit(str[first]) THEN Throws("std::invalid_argument")
        ELSE IF digits.thrown # "none" THEN digits
        ELSE IF signed /\ str[blanks + 1] = "-" THEN Converted(0 - digits.value)
        ELSE digits

\* std::stoll(str): as std::stoi with the range of long long; a value
\* above INT_MAX, which the integers of the model do not hold, is reported
\* as out of range here.
stoll(str) ==
    stoi(str)

\* InputValidator::is_valid_ipv4
is_valid_ipv4(address) ==
    LET octets == getlines(address, ".")
    IN  /\ Len(octets) = 4
        /\ \A k \in 1..Len(octets) :
               LET oct == octets[k]
               IN  /\ oct # <<>>
                   /\ ~(Len(oct) > 1 /\ oct[1] = "0")
                   /\ \A i \in 1..Len(oct) : isdigit(oct[i])
                   /\ stoll(oct).thrown = "none"
                   /\ ~(stoll(oct).value < 0 \/ stoll(oct).value > 255)

\* InputValidator::is_valid_ipv6: the pattern
\* ^([0-9a-fA-F]{1,4}:){7}[0-9a-fA-F]{1,4}$|^::1$|^::$
is_valid_ipv6(address) ==
    \/ address = <<":", ":", "1">>
    \/ address = <<":", ":">>
    \/ LET groups == split(address, ":")
       IN  /\ Len(groups) = 8
           /\ \A k \in 1..Len(groups) :
                  /\ Len(groups[k]) \in 1..4
                  /\ \A i \in 1..Len(groups[k]) : isxdigit(groups[k][i])

\* InputValidator::is_valid_hostname
is_valid_hostname(hostname) ==
    /\ ~(hostname = <<>> \/ Len(hostname) > MAX_HOSTNAME_LENGTH)
    /\ ~(hostname[1] = "-" \/ hostname[Len(hostname)] = "-")
    /\ LET labels == getlines(hostname, ".")
       IN  \A k \in 1..Len(labels) :
               /\ ~(labels[k] = <<>> \/ Len(labels[k]) > MaxLabelLength)
               /\ \A i \in 1..Len(labels[k]) :
                      isalnum(labels[k][i]) \/ labels[k][i] = "-"

\* InputValidator::is_valid_device_path
is_valid_device_path(device) ==
    IF device = <<>> THEN FALSE
    ELSE IF device[1] = "/"
    THEN \A i \in 1..Len(device) : isalnum(device[i]) \/ device[i] \in {"/", "_", "-"}
    ELSE IF Len(device) >= 4 /\ SubSeq(device, 1, 3) = <<"C", "O", "M">>
    THEN LET port == stoi(SubSeq(device, 4, Len(device)))
         IN  port.thrown = "none" /\ port.value >= 1 /\ port.value <= 255
    ELSE device \in {<<"N", "U", "L">>, <<"C", "O", "N">>, <<"P", "R", "N">>,
                     <<"A", "U", "X">>, <<"L", "P", "T", "1">>,
                     <<"L", "P", "T", "2">>, <<"L", "P", "T", "3">>}

\* InputValidator::validate_non_empty_string: the exception thrown, if any.
validate_non_empty_string(str) ==
    IF str = <<>> THEN "ValidationException" ELSE "none"

\* InputValidator::validate_string_length
validate_string_length(str, max_length) ==
    IF Len(str) > max_length THEN "ValidationException" ELSE "none"

\* InputValidator::validate_host
validate_host(host) ==
    IF validate_non_empty_string(host) # "none" THEN "ValidationException"
    ELSE IF validate_string_length(host, MAX_HOSTNAME_LENGTH) # "none"
    THEN "ValidationException"
    ELSE IF is_valid_ipv4(host) THEN "none"
    ELSE IF is_valid_ipv6(host) THEN "none"
    ELSE IF is_valid_hostname(host) THEN "none"
    ELSE "ValidationException"

\* InputValidator::validate_ipv4_address
validate_ipv4_address(address) ==
    IF validate_non_empty_string(address) # "none" THEN "ValidationException"
    ELSE IF ~is_valid_ipv4(address) THEN "ValidationException"
    ELSE "none"

\* InputValidator::validate_device_path
validate_device_path(device) ==
    IF validate_non_empty_string(device) # "none" THEN "ValidationException"
    ELSE IF validate_string_length(device, MAX_DEVICE_PATH_LENGTH) # "none"
    THEN "ValidationException"
    ELSE IF ~is_valid_device_path(device) THEN "ValidationException"
    ELSE "none"

\* No validator was called yet.
NoVerdict ==
    [call |-> "none", thrown |-> "none"]

\* A validator is called on the string: nothing but its outcome changes.
Validate(call) ==
    /\ verdict = NoVerdict
    /\ verdict' =
           [call |-> call,
            thrown |-> CASE call = "validate_ipv4_address" -> validate_ipv4_address(text)
                         [] call = "validate_host" -> validate_host(text)
                         [] call = "validate_device_path" -> validate_device_path(text)]
    /\ UNCHANGED <<text, bytes, back, linkVars, errVars, builderVars, lockVars, ctorVars, poolVars>>

\* A string is converted to bytes, as send() does before it hands them to
\* the channel.
StringToBytes ==
    /\ verdict = NoVerdict
    /\ bytes' = string_to_uint8(text)
    /\ verdict' = [call |-> "string_to_uint8", thrown |-> "none"]
    /\ UNCHANGED <<text, back, linkVars, errVars, builderVars, lockVars, ctorVars, poolVars>>

\* The bytes are converted to a string, as handle_bytes does before it calls
\* on_data.
BytesToString ==
    /\ verdict.call = "string_to_uint8"
    /\ back' = uint8_to_string(bytes)
    /\ verdict' = [call |-> "uint8_to_string", thrown |-> "none"]
    /\ UNCHANGED <<text, bytes, linkVars, errVars, builderVars, lockVars, ctorVars, poolVars>>

\* ------------------------------------------------------- specification

\* The strings given to send()/send_line(), and the byte blocks a read returns.
TxData == SeqsUpTo(Chars, MaxLen)

RxData == SeqsUpTo({CharToU8(c) : c \in Chars}, MaxLen) \ {<<>>}

\* The channels TcpServer(std::shared_ptr<interface::Channel>) is given: a
\* client/serial session, a server, or any other implementation of the
\* interface ("mock"), which reports whatever state it likes.
GivenKinds == {"client", "server", "mock"}

\* The port the servers of a run listen on.
ListenPort == 8080

\* TcpServer::TcpServer(uint16_t port): no channel yet.
InitPort ==
    /\ port_ = ListenPort
    /\ channel_ = 0
    /\ chan = [c \in Chans |-> NoChan]

\* TcpServer::TcpServer(std::shared_ptr<interface::Channel> channel)
InitChannel ==
    /\ port_ = 0
    /\ channel_ = 1
    /\ \E k \in GivenKinds :
           chan = [c \in Chans |-> IF c = 1
                                  THEN [NewChan(k) EXCEPT !.port = ListenPort]
                                  ELSE NoChan]

\* A server as constructed; what it was constructed with is said elsewhere.
InitLink ==
    /\ InitPort \/ InitChannel
    /\ started_ = FALSE
    /\ is_listening_ = FALSE
    /\ peer \in {"down", "up"}
    /\ lastOp = "init"
    /\ reported = NoReportRec
    /\ delivered = NoCall
    /\ creates = 0 /\ sends = 0
    /\ next_client_id = [c \in Chans |-> 1] /\ handed = <<>>
    /\ InitHandler
    /\ InitBuilder
    /\ InitLocks
    /\ InitPool
    /\ pc = [t \in Threads |-> "idle"]

\* What every construction leaves: not started, nothing reported yet.
InitRest ==
    /\ text = <<>> /\ verdict = NoVerdict
    /\ bytes = <<>> /\ back = <<>>
    /\ InitLink

\* A server with no multi-client handler, no port retry and no client limit
\* stored.
InitDefaults ==
    /\ on_multi_connect_ = "none" /\ on_multi_data_ = "none"
    /\ on_multi_disconnect_ = "none"
    /\ port_retry_enabled_ = FALSE /\ max_port_retries_ = 0
    /\ port_retry_interval_ms_ = 0
    /\ max_clients_ = 0 /\ client_limit_enabled_ = FALSE

\* The server as TcpServerBuilder::build returns it: each handler the builder
\* holds is registered on the new server, the others stay empty.
Init ==
    /\ InitRest /\ InitDefaults
    /\ on_data_ \in HandlerIds \cup {"none"}
    /\ on_connect_ \in HandlerIds \cup {"none"}
    /\ on_disconnect_ \in HandlerIds \cup {"none"}
    /\ on_error_ \in HandlerIds \cup {"none"}

\* The server as its constructors leave it: no handler registered.
InitPlain ==
    /\ InitRest /\ InitDefaults
    /\ on_data_ = "none" /\ on_connect_ = "none"
    /\ on_disconnect_ = "none" /\ on_error_ = "none"

\* A server whose only handler is on_error.
InitSend ==
    /\ InitRest /\ InitDefaults
    /\ on_data_ = "none" /\ on_connect_ = "none" /\ on_disconnect_ = "none"
    /\ on_error_ \in HandlerIds

\* A server built with every handler registered.
InitLive ==
    /\ InitRest /\ InitDefaults
    /\ on_data_ \in HandlerIds /\ on_connect_ \in HandlerIds
    /\ on_disconnect_ \in HandlerIds /\ on_error_ \in HandlerIds

\* Reactor steps of the transport.
ReactorNext ==
    \E c \in Chans :
        \/ RunPosted(c)
        \/ OpenOk(c)
        \/ OpenFail(c)
        \/ TimerFires(c)
        \/ BindOk(c)

\* What the outside does to a channel: EOF, a fatal error.
FaultNext ==
    \E c \in Chans :
        \/ PeerClose(c)
        \/ Fatal(c)

\* Lifecycle and events: start/stop, state reports, reads.
Next ==
    \/ Start
    \/ Stop
    \/ ReactorNext
    \/ FaultNext
    \/ \E c \in Chans : \E state \in LinkState : MockReport(c, state)
    \/ \E c \in Chans : \E d \in RxData : DataArrives(c, d)

Spec ==
    Init /\ [][Next]_vars

\* The send path with text payloads: send/send_line of every string.
SendNext ==
    \/ Start
    \/ Stop
    \/ sends < MaxText /\ \E d \in TxData : Send(d)
    \/ sends < MaxText /\ \E d \in TxData : SendLine(d)
    \/ ReactorNext
    \/ \E c \in Chans : \E buf \in chan[c].inflight : WriteComplete(c, buf)
    \/ FaultNext

SendSpec ==
    InitSend /\ [][SendNext]_vars

\* The TX queue: several sends of one payload, told apart by their number.
QueueNext ==
    \/ Start
    \/ Stop
    \/ sends < MaxSend /\ Send(<<NL>>)
    \/ ReactorNext
    \/ \E c \in Chans : \E buf \in chan[c].inflight : WriteComplete(c, buf)
    \/ \E c \in Chans : PeerClose(c)
    \/ PeerUp
    \/ PeerDown

QueueSpec ==
    InitPlain /\ [][QueueNext]_vars

\* The handler field a callback kind is stored in.
HandlerOf(cb) ==
    CASE cb = "on_data" -> on_data_
      [] cb = "on_connect" -> on_connect_
      [] cb = "on_disconnect" -> on_disconnect_
      [] cb = "on_error" -> on_error_
      [] cb = "on_multi_connect" -> on_multi_connect_
      [] cb = "on_multi_data" -> on_multi_data_
      [] cb = "on_multi_disconnect" -> on_multi_disconnect_

\* A running transport may get a handler of kind cb: a replacement, or a
\* further kind within the bound.
MayRegister(cb) ==
    /\ started_
    /\ \/ HandlerOf(cb) # "none"
       \/ Cardinality({k \in CallbackKinds : HandlerOf(k) # "none"}) < MaxKinds

\* Peers of a server: admission, reads, closes.
PeerNext ==
    \E c \in Chans :
        \/ Accept(c)
        \/ \E id \in chan[c].clients : \E d \in RxData : ClientData(c, id, d)
        \/ \E id \in chan[c].clients : ClientLeaves(c, id)

\* Late registration: handlers are registered and replaced while the
\* transport runs (started and not stopped again), and every kind of event
\* occurs.
RegNext ==
    \/ Start
    \/ MayRegister("on_data") /\ \E h \in RegHandlers : OnData(h)
    \/ MayRegister("on_connect") /\ \E h \in RegHandlers : OnConnect(h)
    \/ MayRegister("on_disconnect") /\ \E h \in RegHandlers : OnDisconnect(h)
    \/ MayRegister("on_error") /\ \E h \in RegHandlers : OnError(h)
    \/ MayRegister("on_multi_connect") /\ \E h \in RegHandlers : OnMultiConnect(h)
    \/ MayRegister("on_multi_data") /\ \E h \in RegHandlers : OnMultiData(h)
    \/ MayRegister("on_multi_disconnect") /\ \E h \in RegHandlers : OnMultiDisconnect(h)
    \/ ReactorNext
    \/ FaultNext
    \/ PeerNext
    \/ \E c \in Chans : \E d \in RxData : DataArrives(c, d)

RegSpec ==
    InitPlain /\ [][RegNext]_vars

\* The ids send_to_client is given: those a server hands out and one more.
SendIds == 1..(MaxClients + 1)

\* The client limits a server is configured with: single_client, bounded(n).
Limits == 1..MaxLimit

\* The server as TcpServerBuilder::build returns it for single_client(),
\* max_clients(n) or unlimited_clients(), with the multi-client connect
\* and disconnect handlers registered.
InitServer ==
    /\ InitRest /\ InitPort /\ peer = "up"
    /\ on_data_ = "none" /\ on_connect_ = "none"
    /\ on_disconnect_ = "none" /\ on_error_ = "none"
    /\ on_multi_connect_ \in HandlerIds
    /\ on_multi_data_ = "none"
    /\ on_multi_disconnect_ \in HandlerIds
    /\ port_retry_enabled_ = FALSE /\ max_port_retries_ = 0
    /\ port_retry_interval_ms_ = 0
    /\ \/ max_clients_ \in Limits /\ client_limit_enabled_ = TRUE
       \/ max_clients_ = 0 /\ client_limit_enabled_ = FALSE

\* TcpServer::stop, line 74: stop() sleeps 100 ms before it releases the
\* channel, so the work it posted has run when the next call is made.
Settled ==
    \A c \in Chans : c # channel_ => chan[c].posted = <<>>

\* A multi-client server: the limit is configured while the server is not
\* started, peers come and go, targeted sends are made.
ServerNext ==
    \/ Settled /\ Start
    \/ Stop
    \/ ~started_ /\ Settled /\ \E n \in Limits : SetClientLimit(n)
    \/ ~started_ /\ Settled /\ SetUnlimitedClients
    \/ \E c \in Chans : RunPosted(c)
    \/ \E c \in Chans : BindOk(c)
    \/ \E c \in Chans : Accept(c)
    \/ \E c \in Chans : \E id \in chan[c].clients : ClientLeaves(c, id)

ServerSpec ==
    InitServer /\ [][ServerNext]_vars

\* Targeted sends of a multi-client server whose peers come and go, from
\* before its start() on.
TargetNext ==
    \/ Start
    \/ \E c \in Chans : RunPosted(c)
    \/ \E c \in Chans : BindOk(c)
    \/ \E c \in Chans : Accept(c)
    \/ \E c \in Chans : \E id \in chan[c].clients : ClientLeaves(c, id)
    \/ sends < MaxSend /\ \E id \in SendIds : SendToClient(id, <<NL>>)

TargetSpec ==
    InitServer /\ [][TargetNext]_vars

\* A server constructed on a port or around a transport server it is given.
InitBind ==
    /\ InitPlain
    /\ \A c \in Chans : chan[c].kind \in {"none", "server"}
    /\ peer = "up"

\* Port retry: the settings are given while the server is being configured,
\* before its first start(); the port may be in use.
PortNext ==
    \/ Settled /\ Start
    \/ Stop
    \/ /\ ~started_ /\ \A c \in Chans : chan[c].nStart = 0
       /\ \E enable \in BOOLEAN : \E k \in 0..MaxRetries : \E ms \in 1..MaxInterval :
              EnablePortRetry(enable, k, ms)
    \/ \E c \in Chans : RunPosted(c)
    \/ \E c \in Chans : BindOk(c)
    \/ \E c \in Chans : BindFail(c)
    \/ \E c \in Chans : BindRetry(c)

PortSpec ==
    InitBind /\ [][PortNext]_vars

\* What the queries answer over the life of a server of any construction:
\* start/stop, the channel connecting or binding, peers coming and going.
QueryNext ==
    \/ Settled /\ Start
    \/ Stop
    \/ \E c \in Chans : RunPosted(c)
    \/ \E c \in Chans : OpenOk(c)
    \/ \E c \in Chans : BindOk(c)
    \/ \E c \in Chans : Accept(c)
    \/ \E c \in Chans : \E id \in chan[c].clients : ClientLeaves(c, id)
    \/ \E c \in Chans : \E state \in LinkState : MockReport(c, state)

\* A server of any construction, no handler registered, its peer reachable.
InitQuery ==
    InitPlain /\ peer = "up"

QuerySpec ==
    InitQuery /\ [][QueryNext]_vars

\* The error handler as constructed, beside a server that is never started.
InitAside ==
    InitPlain /\ InitPort /\ peer = "up"

\* The error handler while its filter and its subscribers change.
FilterNext ==
    \/ reports < MaxReports /\ \E error \in Reported : report_error(error)
    \/ \E level \in {ErrorLevels[i] : i \in 1..Len(ErrorLevels)} : set_min_error_level(level)
    \/ \E enabled \in BOOLEAN : set_enabled(enabled)
    \/ Len(callbacks_) < MaxCallbacks /\ register_callback(Len(callbacks_) + 1)
    \/ callbacks_ # <<>> /\ clear_callbacks
    \/ stats_ # NoStats /\ reset_stats

FilterSpec ==
    InitAside /\ [][FilterNext]_vars

\* The error handler under a stream of reports that fills its rings.
RingNext ==
    reports < MaxRecorded /\ \E error \in Reported : report_error(error)

RingSpec ==
    InitAside /\ [][RingNext]_vars

\* The error handler with subscribers that return and subscribers that
\* throw, registered in any order and cleared.
NotifyNext ==
    \/ reports < MaxReports /\ \E error \in Reported : report_error(error)
    \/ Len(callbacks_) < MaxSubscribed /\
           \E callback \in Subscribers : register_callback(callback)
    \/ callbacks_ # <<>> /\ clear_callbacks

NotifySpec ==
    InitAside /\ [][NotifyNext]_vars

\* The statistics under reports, some of them filtered out, and resets.
StatsNext ==
    \/ reports < MaxCounted /\ \E error \in Reported : report_error(error)
    \/ \E enabled \in BOOLEAN : set_enabled(enabled)
    \/ reset_stats

StatsSpec ==
    InitAside /\ [][StatsNext]_vars

\* The ports a builder is constructed with.
Ports == {0, 1, 1024, MaxPort}

\* A builder is constructed, configured in any order, and asked to build.
BuilderNext ==
    \/ \E port \in Ports : TcpServerBuilder(port)
    \/ \E start \in BOOLEAN : auto_start(start)
    \/ \E use_independent \in BOOLEAN : use_independent_context(use_independent)
    \/ \E max \in 0..(MaxLimit + 1) : max_clients(max)
    \/ \E max \in 0..(MaxLimit + 1) : multi_client(max)
    \/ single_client
    \/ unlimited_clients
    \/ Len(built) < MaxBuilt /\ build

BuilderSpec ==
    InitAside /\ [][BuilderNext]_vars

RECURSIVE Join(_, _)
\* The parts, with sep between each two of them.
Join(parts, sep) ==
    IF Len(parts) = 0 THEN <<>>
    ELSE IF Len(parts) = 1 THEN parts[1]
    ELSE parts[1] \o <<sep>> \o Join(Tail(parts), sep)

\* The strings of 1..n parts of S joined by sep.
Joined(S, n, sep) ==
    UNION {{Join(parts, sep) : parts \in [1..k -> S]} : k \in 1..n}

\* n times the char c.
Rep(c, n) ==
    [i \in 1..n |-> c]

\* Addresses: fields that are empty, the digit 0, a number with a leading
\* zero, the largest octet, the number after it, a number followed by a
\* letter; one field to n of them.
Addresses(n) ==
    Joined({<<>>, <<"0">>, <<"0", "1">>, <<"2", "5", "5">>, <<"2", "5", "6">>,
            <<"1", "a">>}, n, ".")

\* Host names of up to n labels: labels that are empty, plain, with a hyphen at either end
\* or inside, with an underscore, of the longest length and one char
\* longer; hosts of four labels that have the longest total length and
\* one char more; the IPv6 forms.
Hosts(n) ==
    Joined({<<>>, <<"a">>, <<"a", "-">>, <<"-", "a">>, <<"a", "-", "b">>,
            <<"a", "_">>, Rep("a", MaxLabelLength), Rep("a", MaxLabelLength + 1)},
           n, ".")
    \cup {Join(<<Rep("a", 63), Rep("a", 63), Rep("a", 63), Rep("a", last)>>, ".") :
              last \in {61, 62}}
    \cup {<<":", ":", "1">>, <<":", ":">>, Join([i \in 1..8 |-> <<"a">>], ":")}

\* Device names: a head, blanks or a sign, a number, a tail of up to n
\* chars; paths of the longest length and one char longer.
Devices(n) ==
    {head \o sign \o number \o tail :
        head \in {<<>>, <<"/">>, <<"C", "O", "M">>, <<"c", "o", "m">>,
                  <<"L", "P", "T">>, <<"N", "U", "L">>, <<"C", "O", "N">>,
                  <<"P", "R", "N">>, <<"A", "U", "X">>},
        sign \in {<<>>, <<" ">>, <<"+">>, <<"-">>},
        number \in {<<>>, <<"0">>, <<"1">>, <<"3">>, <<"4">>, <<"2", "5", "5">>,
                    <<"2", "5", "6">>},
        tail \in SeqsUpTo({"a", "_", "."}, n)}
    \cup {Rep("/", MAX_DEVICE_PATH_LENGTH), Rep("/", MAX_DEVICE_PATH_LENGTH + 1)}

\* A string is given to a validator, beside a server that is never started.
InitText ==
    /\ text \in Addresses(MaxFields) \cup Hosts(MaxLabels) \cup Devices(MaxTail)
    /\ verdict = NoVerdict
    /\ bytes = <<>> /\ back = <<>>
    /\ InitLink /\ InitPort /\ peer = "up"
    /\ InitDefaults
    /\ on_data_ = "none" /\ on_connect_ = "none"
    /\ on_disconnect_ = "none" /\ on_error_ = "none"

\* One of the validators is called on the string.
ValidatorNext ==
    \E call \in {"validate_ipv4_address", "validate_host", "validate_device_path"} :
        Validate(call)

ValidatorSpec ==
    InitText /\ [][ValidatorNext]_vars

\* The chars of the strings converted: NUL, newline, the largest and the
\* smallest char, and one more with the top bit set.
ByteChars == {0, NL, 127, -128, -23}

\* A string is given to the conversions, beside a server that is never
\* started.
InitConvert ==
    /\ text \in SeqsUpTo(ByteChars, MaxBytes)
    /\ verdict = NoVerdict
    /\ bytes = <<>> /\ back = <<>>
    /\ InitLink /\ InitPort /\ peer = "up"
    /\ InitDefaults
    /\ on_data_ = "none" /\ on_connect_ = "none"
    /\ on_disconnect_ = "none" /\ on_error_ = "none"

\* The string is converted to bytes and the bytes back to a string.
ConvertNext ==
    \/ StringToBytes
    \/ BytesToString

ConvertSpec ==
    InitConvert /\ [][ConvertNext]_vars

\* Concurrent start(): user threads run start() statement by statement
\* while the reactor runs.
RaceNext ==
    \/ \E t \in Threads : StartEnter(t)
    \/ \E t \in Threads : StartTest(t)
    \/ \E t \in Threads : StartMake(t)
    \/ \E t \in Threads : StartRun(t)
    \/ ReactorNext
    \/ FaultNext

RaceSpec ==
    InitPlain /\ [][RaceNext]_vars

\* Reconnection: lifecycle, reactor and faults, with the peer coming and
\* going.  The reactor thread keeps running: every step it can take it
\* eventually takes.  Nothing obliges the user to call start() or stop(),
\* nor the outside to fail.
LiveNext ==
    \/ Start
    \/ Stop
    \/ ReactorNext
    \/ FaultNext
    \/ PeerUp
    \/ PeerDown

ReactorFairness ==
    \A c \in Chans :
        /\ WF_vars(RunPosted(c))
        /\ WF_vars(OpenOk(c))
        /\ WF_vars(OpenFail(c))
        /\ WF_vars(TimerFires(c))
        /\ WF_vars(BindOk(c))

LiveSpec ==
    InitLive /\ [][LiveNext]_vars /\ ReactorFairness

\* ================================================================ claims

\* Everything start(), stop() and send() could touch besides the observation
\* of the step itself.
frameVars ==
    <<started_, channel_, is_listening_, on_data_, on_connect_, on_disconnect_,
      on_error_, multiVars, cfgVars, chan, next_client_id, handed, peer, creates>>

\* C1: start() is idempotent: while the server is started (start() calls with
\* no stop() in between) the channel was created at most once and its start
\* was called exactly once, and a start() call on a started server changes
\* no configuration, handler or state.
C1_StartIdempotent ==
    /\ [](started_ => /\ channel_ # 0
                      /\ chan[channel_].nStart = 1
                      /\ creates <= 1)
    /\ [][(started_ /\ Start) => UNCHANGED <<frameVars, sends>>]_vars

\* C1 witness: a second start() was made on a started server whose first
\* start had already run on the reactor, and the channel was started once.
C1_Witness ==
    /\ lastOp = "start" /\ started_ /\ channel_ # 0
    /\ chan[channel_].posted = <<>>
    /\ chan[channel_].nStart = 1
    /\ chan[channel_].state # "Idle"

\* C2: stop() on a server that is not started is a no-op: no callback is
\* delivered, the channel is not touched, started flag and handlers stay.
C2_StopWhenNotStarted ==
    [][(~started_ /\ Stop) =>
          /\ UNCHANGED <<frameVars, sends>>
          /\ delivered' = NoCall
          /\ reported' = NoReportRec]_vars

\* C2 witness: stop() was called on a server that holds a channel it never
\* started, with handlers registered, and the channel is untouched.
C2_Witness ==
    /\ lastOp = "stop" /\ ~started_ /\ channel_ # 0
    /\ chan[channel_].nStart = 0 /\ chan[channel_].posted = <<>>
    /\ on_disconnect_ # "none" /\ on_error_ # "none"

\* The callbacks the event surface owes for a reported state.
Expected(state) ==
    IF state = "Connected" /\ on_connect_ # "none"
    THEN <<[cb |-> "on_connect", h |-> on_connect_, arg |-> <<>>, msg |-> ""]>>
    ELSE IF state = "Closed" /\ on_disconnect_ # "none"
    THEN <<[cb |-> "on_disconnect", h |-> on_disconnect_, arg |-> <<>>, msg |-> ""]>>
    ELSE IF state = "Error" /\ on_error_ # "none"
    THEN <<[cb |-> "on_error", h |-> on_error_, arg |-> <<>>, msg |-> "Connection error"]>>
    ELSE <<>>

\* C9: a state report maps to user callbacks one for one: on_connect exactly
\* for Connected, on_disconnect exactly for Closed, on_error exactly for
\* Error, nothing for Idle, Connecting and Listening; an unset handler is
\* skipped; and no state callback is invoked without a state report.
C9_StateToCallback ==
    /\ reported.state # "none" => delivered = Expected(reported.state)
    /\ reported.state = "none" =>
           \A i \in 1..Len(delivered) : delivered[i].cb = "on_data"

\* C9 witness: Error was reported with on_error set and on_disconnect set,
\* and exactly on_error was invoked.
C9_Witness ==
    /\ reported.state = "Error"
    /\ on_error_ # "none" /\ on_disconnect_ # "none"
    /\ Len(delivered) = 1 /\ delivered[1].cb = "on_error"

\* A channel of the library's transport that the wrapper's stop() released.
Released(c) ==
    chan[c].kind \in {"client", "server"} /\ c # channel_

\* stop() has taken effect on c: the stop posted to the reactor has run.
StopDone(c) ==
    Released(c) /\ chan[c].posted = <<>>

\* C3: once stop() has taken effect on a session or server, no on_data or
\* on_connect callback comes from it any more (the final disconnect/error
\* may), no retry timer is left and the state is not Connecting again.
C3_StopCancels ==
    \A c \in Chans :
        StopDone(c) =>
            /\ chan[c].state # "Connecting"
            /\ ~chan[c].timer /\ ~chan[c].open
            /\ reported.ch = c =>
                   \A i \in 1..Len(delivered) :
                       delivered[i].cb \notin {"on_data", "on_connect"}

\* C3 witness: a session that had reconnected was stopped; the stop took
\* effect, cancelled everything and the final on_disconnect was delivered.
C3_Witness ==
    \E c \in Chans :
        /\ StopDone(c) /\ chan[c].kind = "client" /\ chan[c].retried
        /\ chan[c].stopped
        /\ reported = [ch |-> c, state |-> "Closed"]
        /\ Len(delivered) = 1 /\ delivered[1].cb = "on_disconnect"
        /\ on_data_ # "none" /\ on_connect_ # "none"

\* The edges of the session graph as the claim lists them.
ClaimedEdges ==
    {<<"Idle", "Connecting">>, <<"Connecting", "Connected">>,
     <<"Connected", "Closed">>, <<"Closed", "Connecting">>,
     <<"Error", "Closed">>}
    \cup {<<s, "Error">> : s \in LinkState}

C4_SendDropped ==
    [][\A d \in TxData :
          (~is_connected /\ Send(d)) =>
              /\ UNCHANGED frameVars
              /\ delivered' = NoCall
              /\ reported' = NoReportRec]_vars

\* C4 witness: send() was called on a started session that was still
\* connecting, and nothing was posted to its channel.
C4_Witness ==
    /\ lastOp = "send" /\ started_ /\ channel_ # 0
    /\ chan[channel_].state = "Connecting"
    /\ chan[channel_].posted = <<>>
    /\ on_error_ # "none" /\ sends = 1

\* C4 second case, reached as well: send() on a session in Error.
C4_InError ==
    /\ lastOp = "send" /\ started_ /\ channel_ # 0
    /\ chan[channel_].state = "Error"
    /\ chan[channel_].posted = <<>>
    /\ on_error_ # "none" /\ sends = 1

\* The bytes of s followed by one newline byte.
LineBytes(s) ==
    [i \in 1..(Len(s) + 1) |-> IF i <= Len(s) THEN CharToU8(s[i]) ELSE 10]

\* C5: send_line(s) hands the channel the bytes of s followed by exactly one
\* added newline, for every s (empty, or ending in a newline already), and
\* is dropped exactly when send is: when the transport is not Connected.
C5_SendLine ==
    [][\A s \in TxData :
          SendLine(s) =>
              IF channel_ # 0 /\ chan[channel_].state = "Connected"
              THEN chan' = [chan EXCEPT ![channel_].posted =
                              Append(@, [t |-> "write", data |-> LineBytes(s),
                                         id |-> sends + 1])]
              ELSE UNCHANGED chan]_vars

\* C5 witness: send_line("\n") on a connected session posted two newline
\* bytes to the channel.
C5_Witness ==
    /\ lastOp = "send_line" /\ channel_ # 0
    /\ chan[channel_].state = "Connected"
    /\ chan[channel_].posted # <<>>
    /\ chan[channel_].posted[Len(chan[channel_].posted)].data = <<10, 10>>

\* The numbers of the send calls whose buffers a session holds or has
\* written, oldest first: written, in flight, queued, still posted.
IdsOf(q) ==
    [i \in 1..Len(q) |-> q[i].id]

PostedWrites(r) ==
    SelectSeq(r.posted, LAMBDA w : w.t = "write")

Increasing(q) ==
    \A i, j \in 1..Len(q) : i < j => q[i] < q[j]

\* C8: on one session at most one write is in flight, further sends wait in
\* the TX queue, and writes complete in the order of the send calls, none
\* twice: the completed writes, then the one in flight, then the queued and
\* the posted ones carry strictly increasing send numbers.
C8_WriteOrder ==
    \A c \in Chans :
        /\ Cardinality(chan[c].inflight) <= 1
        /\ Increasing(chan[c].wire)
        /\ \A b \in chan[c].inflight :
               /\ \A i \in 1..Len(chan[c].wire) : chan[c].wire[i] < b.id
               /\ \A i \in 1..Len(chan[c].txq) : b.id < chan[c].txq[i].id
        /\ Increasing(IdsOf(chan[c].txq) \o IdsOf(PostedWrites(chan[c])))

\* C8 witness: one write completed, the next is in flight.
C8_Witness ==
    \E c \in Chans :
        /\ chan[c].wire = <<1>>
        /\ \E b \in chan[c].inflight : b.id = 2

\* C8 second case, reached as well: a buffer waits in the TX queue while
\* another is in flight.
C8_Waiting ==
    \E c \in Chans :
        /\ Cardinality(chan[c].inflight) = 1
        /\ Len(chan[c].txq) >= 1

\* No stop() reaches session c and no non-retryable error ends it.
Undisturbed(c) ==
    /\ ~chan[c].stopped
    /\ \A i \in 1..Len(chan[c].posted) : chan[c].posted[i].t # "stop"
    /\ chan[c].state # "Error"

\* Session c failed to open or left Connected: it waits for its retry.
AwaitsRetry(c) ==
    /\ chan[c].kind = "client"
    /\ \/ chan[c].state = "Closed"
       \/ chan[c].state = "Connecting" /\ ~chan[c].open

\* Session c has just reported Connected and on_connect was delivered.
ConnectDelivered(c) ==
    /\ chan[c].state = "Connected"
    /\ reported = [ch |-> c, state |-> "Connected"]
    /\ delivered = <<[cb |-> "on_connect", h |-> on_connect_, arg |-> <<>>, msg |-> ""]>>

ErrorReported(c) ==
    reported = [ch |-> c, state |-> "Error"]

\* on_disconnect has just been delivered for session c.
DisconnectDelivered(c) ==
    /\ reported.ch = c
    /\ \E i \in 1..Len(delivered) : delivered[i].cb = "on_disconnect"

\* C10: every error reported on a transport invokes on_error(message), and
\* one that leaves the transport in Error (no retry follows) is followed by
\* an on_disconnect() as well.
C10_ErrorAlsoDisconnects ==
    \A c \in Chans :
        /\ [](ErrorReported(c) =>
                 \E i \in 1..Len(delivered) : delivered[i].cb = "on_error")
        /\ [](ErrorReported(c) => <>DisconnectDelivered(c))

\* on_disconnect is delivered for channel c in this step.
DisconnectNow(c) ==
    /\ reported'.ch = c
    /\ \E i \in 1..Len(delivered') : delivered'[i].cb = "on_disconnect"

\* Channel c of the library's transport is at a steady state: stopped, or
\* nothing open, nothing pending and not connected.
Steady(c) ==
    /\ chan[c].kind \in {"client", "server"}
    /\ chan[c].posted = <<>> /\ ~chan[c].open /\ ~chan[c].timer
    /\ chan[c].state # "Connected"

\* C11: with on_connect and on_disconnect registered, on_disconnect is
\* delivered for a transport only when an earlier on_connect of it is still
\* unmatched, and at every steady state no on_connect is left unmatched: the
\* deliveries of the two are equal in number.
C11_DisconnectsMatchConnects ==
    /\ [][\A c \in Chans :
             (/\ chan[c].kind \in {"client", "server"}
              /\ on_connect_ # "none" /\ on_disconnect_ # "none"
              /\ DisconnectNow(c)) => chan[c].up]_vars
    /\ [](\A c \in Chans :
             (Steady(c) /\ on_connect_ # "none" /\ on_disconnect_ # "none")
                 => ~chan[c].up)

\* C12: whenever an event occurs the handler invoked is the one registered
\* at that moment, late registrations and replacements included: every call
\* goes to the handler its field now holds (never to one it replaced), and
\* an event whose handler is set invokes it: a state report its state
\* callback, a read on_data and, on the server the wrapper holds, an
\* admission on_multi_connect, a peer's read on_multi_data and a peer's
\* close on_multi_disconnect.
C12_LateRegistration ==
    /\ \A i \in 1..Len(delivered) : delivered[i].h = HandlerOf(delivered[i].cb)
    /\ (reported.state # "none" /\ Expected(reported.state) # <<>>)
           => /\ delivered # <<>>
              /\ delivered[Len(delivered)] = Expected(reported.state)[1]
    /\ (lastOp = "event" /\ reported.ch # 0 /\ reported.state = "none"
            /\ on_data_ # "none")
           => Len(delivered) = 1 /\ delivered[1].cb = "on_data"
    /\ (lastOp = "accept" /\ reported.ch = channel_ /\ on_multi_connect_ # "none")
           => delivered = <<[cb |-> "on_multi_connect", h |-> on_multi_connect_,
                             arg |-> <<next_client_id[reported.ch] - 1>>, msg |-> ""]>>
    /\ (lastOp = "client_data" /\ reported.ch = channel_ /\ on_multi_data_ # "none")
           => Len(delivered) = 1 /\ delivered[1].cb = "on_multi_data"
    /\ (lastOp = "client_close" /\ reported.ch = channel_
            /\ on_multi_disconnect_ # "none")
           => Len(delivered) = 1 /\ delivered[1].cb = "on_multi_disconnect"

\* C12 witness: a running server admitted a peer and the replacement
\* handler "h2", registered after start(), got the connect callback.
C12_Witness ==
    /\ lastOp = "accept" /\ started_ /\ reported.ch = channel_
    /\ Len(delivered) = 1 /\ delivered[1].h = "h2"
    /\ delivered[1].cb = "on_multi_connect"

\* C12 second case, reached as well: a replaced on_connect handler.
C12_StateHandler ==
    /\ reported.state = "Connected" /\ started_
    /\ Len(delivered) = 1 /\ delivered[1].h = "h2"

\* C13: start() calls made by different threads at once create and start
\* exactly one channel: at most one channel object exists for the server
\* and at most one has been started.
C13_OneChannelPerStart ==
    /\ NumChans <= 1
    /\ Cardinality({c \in Chans : chan[c].nStart > 0}) <= 1

\* The limit the wrapper is configured with is n.
Configured(n) ==
    client_limit_enabled_ /\ max_clients_ = n

C14_Single ==
    /\ lastOp = "reject" /\ Configured(1) /\ started_
    /\ reported.ch = channel_
    /\ Cardinality(chan[channel_].clients) = 1

C15_PerServer ==
    \A c \in Chans :
        /\ next_client_id[c] >= 1
        /\ \A id \in chan[c].clients : id < next_client_id[c]

\* C15 case: a server restarted after stop() has admitted its first peer.
C15_Restarted ==
    /\ started_ /\ channel_ = 2
    /\ lastOp = "accept" /\ reported.ch = channel_
    /\ Len(handed) >= 2

\* The bind attempts a server configured as r may make.
Allowed(r) ==
    IF r.retry_on THEN r.retry_max + 1 ELSE 1

\* The transport's part: a bind is attempted only after fewer than k + 1
\* failed ones, so at most k + 1 attempts are made; the failure of the last
\* one ends in Error with the wrapper not listening; a successful one ends in
\* Listening, and a Listening server has no attempt under way or scheduled.
AttemptsBounded ==
    /\ [](\A c \in Chans :
             /\ chan[c].failed <= Allowed(chan[c])
             /\ (chan[c].open \/ chan[c].btimer) => chan[c].failed < Allowed(chan[c])
             /\ chan[c].state = "Listening" => ~chan[c].open /\ ~chan[c].btimer)
    /\ [][\A c \in Chans :
             /\ (BindFail(c) /\ chan'[c].failed = Allowed(chan[c]))
                    => chan'[c].state = "Error" /\ ~is_listening_'
             /\ chan[c].state = "Listening" => chan'[c].failed = chan[c].failed
             /\ BindOk(c) => chan'[c].state = "Listening"]_vars

\* The channel the wrapper holds works with the stored port-retry settings.
StoredSettingsUsed ==
    /\ chan[channel_].retry_on = port_retry_enabled_
    /\ chan[channel_].retry_max = max_port_retries_
    /\ chan[channel_].retry_ms = port_retry_interval_ms_

\* C16: a started server makes at most k + 1 bind attempts with
\* enable_port_retry(true, k, interval); when the last one fails it goes to
\* Error and the wrapper is not listening; once Listening it makes no further
\* attempt; and the channel of a started wrapper that was given
\* enable_port_retry(true, k, interval) before start() works with that k and
\* interval.
C16_PortRetry ==
    /\ AttemptsBounded
    /\ []((started_ /\ channel_ # 0 /\ port_retry_enabled_) => StoredSettingsUsed)

\* C16 as it holds: the same, for the wrapper whose start() created the
\* channel (the server the builder builds); the channel then works with the
\* enable, k and interval stored when start() was called.
C16_OwnChannel ==
    /\ AttemptsBounded
    /\ []((started_ /\ channel_ # 0 /\ creates > 0) => StoredSettingsUsed)

\* C16 case: with k = 1 both attempts failed and the server is in Error.
C16_Exhausted ==
    /\ started_ /\ channel_ # 0 /\ creates > 0
    /\ chan[channel_].retry_on /\ chan[channel_].retry_max = 1
    /\ chan[channel_].failed = 2 /\ chan[channel_].state = "Error"

\* C16 case: the second attempt succeeded.
C16_RetrySucceeded ==
    /\ started_ /\ channel_ # 0
    /\ chan[channel_].failed = 1 /\ chan[channel_].state = "Listening"
    /\ is_listening_

\* Server c after the step is what it was, but for its posted work.
SameBut(c, posted) ==
    chan'[c] = [chan[c] EXCEPT !.posted = posted]

\* C17: send_to_client with an id that is not in the client map is a no-op.
\* Without a server channel the call changes nothing at all; with one, the
\* call changes nothing but the work posted to the reactor, and when that
\* work runs and the id is not in the map nothing is sent to any client,
\* no callback is invoked and no state of the server or the wrapper changes.
C17_SendToUnknown ==
    /\ [][\A id \in SendIds :
             SendToClient(id, <<NL>>) =>
                 /\ delivered' = NoCall /\ reported' = NoReportRec
                 /\ UNCHANGED <<wrapperVars, next_client_id, handed>>
                 /\ IF HasServer
                    THEN /\ SameBut(channel_, Append(chan[channel_].posted,
                                        [t |-> "send_to", data |-> <<NL>>, id |-> id]))
                         /\ \A c \in Chans \ {channel_} : chan'[c] = chan[c]
                    ELSE chan' = chan]_vars
    /\ [][\A c \in Chans :
             (/\ chan[c].posted # <<>>
              /\ Head(chan[c].posted).t = "send_to"
              /\ Head(chan[c].posted).id \notin chan[c].clients
              /\ RunPosted(c)) =>
                 /\ SameBut(c, Tail(chan[c].posted))
                 /\ delivered' = NoCall /\ reported' = NoReportRec
                 /\ UNCHANGED <<wrapperVars, next_client_id, handed>>]_vars

\* C17 witness: the one send_to_client call made has run on the reactor of
\* a server that holds a client, and nothing was sent: the id was not that
\* client's.
C17_Witness ==
    /\ started_ /\ HasServer /\ sends = 1
    /\ lastOp = "event" /\ reported = NoReportRec
    /\ chan[channel_].state = "Listening"
    /\ chan[channel_].posted = <<>>
    /\ chan[channel_].clients # {}
    /\ \A c \in Chans : chan[c].csent = {}

\* C17 second case, reached as well: send_to_client on a server that is not
\* started and has no channel.
C17_NoChannel ==
    /\ lastOp = "send_to_client" /\ ~started_ /\ channel_ = 0
    /\ \A c \in Chans : chan[c].posted = <<>> /\ chan[c].csent = {}

\* C17 contrast, reached as well: an id in the map gets the bytes.
C17_Sent ==
    /\ started_ /\ HasServer
    /\ \E id \in chan[channel_].clients : <<id, <<NL>>>> \in chan[channel_].csent

\* What the three queries answer for a server without connection or client.
NothingThere ==
    /\ ~is_connected
    /\ get_client_count = 0
    /\ get_connected_clients = {}

C18_GivenConnected ==
    /\ ~started_ /\ channel_ # 0
    /\ is_connected

\* The handler is enabled and the level of error is at least min_level_.
Recordable(error) ==
    enabled_ /\ LevelRank(error.level) >= LevelRank(min_level_)

\* C19: report_error records the error if and only if the handler is enabled
\* and the level of the error is at least the minimum level: a recorded
\* error is counted, is the newest entry of the global ring and of the ring
\* of its component, and every subscriber is invoked with it; a report that
\* is filtered out leaves statistics and rings as they were and invokes no
\* subscriber.
C19_ReportFilter ==
    [][\A error \in Reported :
          report_error(error) =>
              IF Recordable(error)
              THEN /\ stats_'.total_errors = stats_.total_errors + 1
                   /\ recent_errors_'[Len(recent_errors_')] = error
                   /\ LET ring == errors_by_component_'[error.component]
                      IN  ring[Len(ring)] = error
                   /\ Len(notified') = Len(callbacks_)
                   /\ \A i \in 1..Len(notified') : notified'[i].error = error
              ELSE /\ UNCHANGED handlerVars
                   /\ notified' = <<>>]_vars

\* C19 witness: with a subscriber registered, an error below the minimum
\* level was reported to the enabled handler and nothing was recorded.
C19_Witness ==
    /\ reports = 1 /\ log = <<>>
    /\ enabled_ /\ min_level_ = "CRITICAL"
    /\ callbacks_ # <<>> /\ notified = <<>>
    /\ stats_ = NoStats /\ recent_errors_ = <<>>

\* C19 second case, reached as well: a recorded error, its subscriber called.
C19_Recorded ==
    /\ reports = 1 /\ Len(log) = 1
    /\ Len(notified) = 1 /\ notified[1].error = log[1]
    /\ stats_.total_errors = 1

\* The last n entries of a sequence s (all of it if it is shorter).
LastOf(s, n) ==
    IF Len(s) > n THEN SubSeq(s, Len(s) - n + 1, Len(s)) ELSE s

\* The recorded errors of one component, in report order.
LogOf(component) ==
    SelectSeq(log, LAMBDA e : e.component = component)

\* C20: after any sequence of reports the global ring holds at most its
\* capacity of entries and each component ring at most its own, and each
\* holds exactly the most recently recorded errors (of that component) in
\* report order: the oldest goes when a ring is full, no newer one is lost.
C20_Rings ==
    /\ Len(recent_errors_) <= RecentCap
    /\ recent_errors_ = LastOf(log, RecentCap)
    /\ \A c \in Components :
          /\ Len(errors_by_component_[c]) <= ComponentCap
          /\ errors_by_component_[c] = LastOf(LogOf(c), ComponentCap)

\* C20 witness: more errors were recorded than the global ring holds and
\* more of one component than its ring holds; both rings are full and have
\* lost their oldest entries.
C20_Witness ==
    /\ Len(log) > RecentCap
    /\ Len(recent_errors_) = RecentCap
    /\ recent_errors_[1] = log[Len(log) - RecentCap + 1]
    /\ \E c \in Components :
          /\ Len(LogOf(c)) > ComponentCap
          /\ Len(errors_by_component_[c]) = ComponentCap

\* One call per registered subscriber, in registration order.
CalledInOrder(error) ==
    [i \in 1..Len(callbacks_) |-> [cb |-> callbacks_[i], error |-> error]]

\* C21: a recorded report calls each registered subscriber exactly once, in
\* registration order, within the report_error call; a subscriber that throws
\* does not keep the later ones from being called, no exception leaves
\* report_error, and what it threw is not recorded (statistics, rings and
\* history gain the reported error only). clear_callbacks leaves no
\* subscriber, so a later report calls none.
C21_Subscribers ==
    /\ [][\A error \in Reported :
             report_error(error) /\ Recordable(error) =>
                 /\ notified' = CalledInOrder(error)
                 /\ raised' = "none"
                 /\ stats_'.total_errors = stats_.total_errors + 1
                 /\ log' = Append(log, error)
                 /\ recent_errors_' = LastOf(Append(recent_errors_, error), RecentCap)
                 /\ \A c \in Components :
                        Len(errors_by_component_'[c]) =
                            Len(LastOf(LogOf(c)', ComponentCap))]_vars
    /\ [][clear_callbacks => callbacks_' = <<>>]_vars

\* C21 witness: a subscriber that throws was registered before one that
\* returns; a report was recorded, both were called in that order, the
\* exception was written to std::cerr and one error is counted.
C21_Witness ==
    /\ Len(callbacks_) = 2
    /\ Behaviour(callbacks_[1]) # "returns" /\ Behaviour(callbacks_[2]) = "returns"
    /\ Len(log) = 1 /\ stats_.total_errors = 1
    /\ notified = <<[cb |-> callbacks_[1], error |-> log[1]],
                    [cb |-> callbacks_[2], error |-> log[1]]>>
    /\ Len(cerr) = 1 /\ raised = "none"

\* The errors recorded since the last reset_stats, in order.
SinceReset ==
    SubSeq(log, reset_at + 1, Len(log))

RECURSIVE SumOver(_, _)
\* The sum of the counts f holds for the keys in S.
SumOver(f, S) ==
    IF S = {} THEN 0
    ELSE LET k == CHOOSE x \in S : TRUE
         IN  f[k] + SumOver(f, S \ {k})

\* C22: after any sequence of report_error and reset_stats calls,
\* total_errors is the number of errors recorded since the last reset, and
\* is the sum of the per-level counts and of the per-category counts;
\* retryable_errors is the number of those errors that are retryable and at
\* most total_errors; first_error is the timestamp of the first error
\* recorded since the reset and last_error that of the latest.
C22_StatsConsistent ==
    /\ stats_.total_errors = Len(SinceReset)
    /\ stats_.total_errors = SumOver(stats_.errors_by_level, 1..Len(ErrorLevels))
    /\ stats_.total_errors = SumOver(stats_.errors_by_category, Categories)
    /\ stats_.retryable_errors = Len(SelectSeq(SinceReset, LAMBDA e : e.retryable))
    /\ stats_.retryable_errors <= stats_.total_errors
    /\ SinceReset # <<>> =>
           /\ stats_.first_error = SinceReset[1].timestamp
           /\ stats_.last_error = SinceReset[Len(SinceReset)].timestamp

\* C22 witness: an error was recorded, the statistics were reset and two
\* more errors were recorded, one of them retryable; the counts and the
\* timestamps are those of the two.
C22_Witness ==
    /\ reset_at > 0 /\ Len(SinceReset) = 2
    /\ stats_.total_errors = 2 /\ stats_.retryable_errors = 1
    /\ stats_.first_error = SinceReset[1].timestamp
    /\ stats_.first_error < stats_.last_error

\* What a call with a bounded limit max must do to the builder.
BoundedLimit(max) ==
    IF max < 2
    THEN /\ thrown' = "std::invalid_argument"
         /\ builder' = builder
    ELSE /\ thrown' = "none"
         /\ builder'.max_clients_ = max
         /\ builder'.client_limit_set_

\* C23: max_clients(n) and multi_client(n) with n = 0 or n = 1 throw and
\* leave the builder as it was, the limit chosen before and the limit-set
\* flag included; with n >= 2 the limit becomes n and is marked as set.
C23_BoundedLimit ==
    [][\A max \in 0..(MaxLimit + 1) :
          /\ max_clients(max) => BoundedLimit(max)
          /\ multi_client(max) => BoundedLimit(max)]_vars

\* C23 witness: after single_client() a call with limit 0 or 1 threw: the
\* builder still holds limit 1, marked as set.
C23_Witness ==
    /\ thrown = "std::invalid_argument"
    /\ builder.max_clients_ = 1 /\ builder.client_limit_set_

\* C23 second case, reached as well: a limit of 2 or more is stored.
C23_Stored ==
    /\ thrown = "none"
    /\ builder.max_clients_ \in 2..(MaxLimit + 1) /\ builder.client_limit_set_

\* C24 as stated: a builder on which no client limit was chosen builds a
\* server: build() called with only auto_start (and handlers) configured
\* throws nothing and returns a server.
C24_BuildsWithoutLimit ==
    [][build /\ ~builder.client_limit_set_ =>
          /\ thrown' = "none"
          /\ Len(built') = Len(built) + 1]_vars

\* C24, the case itself: build() was called on a builder with auto_start
\* and no client limit; it threw and no server exists.
C24_Refused ==
    /\ builder.made /\ builder.auto_start_ /\ ~builder.client_limit_set_
    /\ thrown = "std::runtime_error"
    /\ built = <<>>

\* C25: constructing a builder with port 0 throws a BuilderException and
\* leaves no builder, no server and no io_context; with any other port of
\* 1..65535 it throws nothing and the builder holds the port.
C25_PortValidated ==
    [][\A port \in Ports :
          TcpServerBuilder(port) =>
              IF port = 0
              THEN /\ thrown' = "BuilderException"
                   /\ ~builder'.made
                   /\ built' = <<>> /\ ioc' = NoContexts
              ELSE /\ thrown' = "none"
                   /\ builder'.made /\ builder'.port_ = port]_vars

\* C25 witness: the constructor was called with port 0 and threw; there is
\* no builder and no server.
C25_Witness ==
    /\ thrown = "BuilderException"
    /\ ~builder.made /\ built = <<>>

\* C25 second case, reached as well: the largest port was accepted.
C25_Accepted ==
    /\ thrown = "none" /\ builder.made /\ builder.port_ = MaxPort

\* C26: a builder call that throws (the constructor on port 0, a bounded
\* limit of 0 or 1, build() without a client limit) acquires nothing: no
\* io_context is started or created and no server is constructed by it;
\* and as long as no build() has succeeded, no io_context runs or was
\* created and no server exists.
C26_NothingAcquired ==
    /\ [](built = <<>> => ioc = NoContexts)
    /\ [][BuilderNext /\ thrown' # "none" => UNCHANGED <<ioc, built>>]_vars

\* C26 witness: build() threw on a builder that asks for an independent
\* io_context and has no client limit; no io_context was created, the
\* shared one does not run, no server exists.
C26_Witness ==
    /\ thrown = "std::runtime_error"
    /\ builder.use_independent_context_ /\ ~builder.client_limit_set_
    /\ ioc = NoContexts /\ built = <<>>

\* C27 as stated: a server built with use_independent_context(true) is
\* bound to an independent io_context of its own, one that exists as long
\* as the server does; and while only such servers have been built, the
\* shared io_context has not been started.
C27_OwnReactor ==
    /\ \A i \in 1..Len(built) :
           built[i].use_independent_context => built[i].context \in ioc.live
    /\ (\A i \in 1..Len(built) : built[i].use_independent_context) =>
           ~ioc.running

\* C27, the case itself: a server was built with use_independent_context
\* set; an independent io_context was created for it and is gone, and the
\* server holds none.
C27_Discarded ==
    /\ Len(built) = 1 /\ built[1].use_independent_context
    /\ ioc.created = 1 /\ ioc.live = {} /\ built[1].context = 0

\* A decimal field of value 0..255 without a leading zero: one to three
\* digits, not beginning with 0 unless it is the digit 0 alone.
Octet(field) ==
    /\ Len(field) \in 1..3
    /\ \A i \in 1..Len(field) : isdigit(field[i])
    /\ Len(field) > 1 => field[1] # "0"
    /\ accumulate(field, 1, 0).value <= 255

\* Exactly four such fields, separated by three dots, nothing else.
DottedQuad(str) ==
    /\ Len(split(str, ".")) = 4
    /\ \A k \in 1..4 : Octet(split(str, ".")[k])

\* C28 as stated: validate_ipv4_address accepts a string exactly if it is
\* four decimal fields of value 0..255 without leading zeros, separated by
\* three dots, with nothing before or after; a string with an empty field,
\* a fifth field or a trailing dot throws.
C28_Ipv4Exact ==
    verdict.call = "validate_ipv4_address" =>
        (verdict.thrown = "none" <=> DottedQuad(text))

\* C28, what holds: an address that is accepted is a dotted quad, possibly
\* followed by one more dot; every dotted quad is accepted.
C28_Ipv4UpToDot ==
    verdict.call = "validate_ipv4_address" =>
        (verdict.thrown = "none" <=>
            \/ DottedQuad(text)
            \/ /\ text # <<>> /\ text[Len(text)] = "."
               /\ DottedQuad(SubSeq(text, 1, Len(text) - 1)))

\* C28, the case itself: a dotted quad with a trailing dot was accepted.
C28_TrailingDot ==
    /\ verdict = [call |-> "validate_ipv4_address", thrown |-> "none"]
    /\ text = <<"0", ".", "0", ".", "0", ".", "0", ".">>

\* A label of RFC 1123: 1..63 letters, digits and hyphens, no hyphen at
\* either end.
Label(field) ==
    /\ Len(field) \in 1..MaxLabelLength
    /\ \A i \in 1..Len(field) : isalnum(field[i]) \/ field[i] = "-"
    /\ field[1] # "-" /\ field[Len(field)] # "-"

\* A host name of RFC 1123: at most 253 chars, dot-separated labels.
HostName(str) ==
    /\ Len(str) <= MAX_HOSTNAME_LENGTH
    /\ \A k \in 1..Len(split(str, ".")) : Label(split(str, ".")[k])

\* C29 as stated: a host string that is not an IP address is accepted
\* exactly if it is at most 253 chars long and splits on dots into labels of
\* 1..63 letters, digits and hyphens none of which begins or ends with a
\* hyphen.
C29_HostNameExact ==
    (/\ verdict.call = "validate_host"
     /\ ~DottedQuad(text) /\ ~is_valid_ipv6(text)) =>
        (verdict.thrown = "none" <=> HostName(text))

\* C29, what holds: every such host name is accepted, and what is accepted
\* is at most 253 chars long.
C29_HostNamesAccepted ==
    verdict.call = "validate_host" =>
        /\ HostName(text) => verdict.thrown = "none"
        /\ verdict.thrown = "none" => Len(text) \in 1..MAX_HOSTNAME_LENGTH

\* C29, the case itself: a host whose first label ends with a hyphen was
\* accepted.
C29_HyphenLabel ==
    /\ verdict = [call |-> "validate_host", thrown |-> "none"]
    /\ text = <<"a", "-", ".", "a">>

\* COM followed by a decimal number of 1..255 and nothing else.
ComPort(str) ==
    /\ Len(str) >= 4 /\ SubSeq(str, 1, 3) = <<"C", "O", "M">>
    /\ \A i \in 4..Len(str) : isdigit(str[i])
    /\ accumulate(str, 4, 0).thrown = "none"
    /\ accumulate(str, 4, 0).value \in 1..255

\* A path that begins with '/' and holds only alphanumerics, '/', '_', '-'.
UnixPath(str) ==
    /\ str # <<>> /\ str[1] = "/"
    /\ \A i \in 1..Len(str) : isalnum(str[i]) \/ str[i] \in {"/", "_", "-"}

\* The Windows device names the validator knows.
Reserved(str) ==
    str \in {<<"N", "U", "L">>, <<"C", "O", "N">>, <<"P", "R", "N">>,
             <<"A", "U", "X">>, <<"L", "P", "T", "1">>, <<"L", "P", "T", "2">>,
             <<"L", "P", "T", "3">>}

\* C30 as stated: validate_device_path accepts a string exactly if it is
\* not empty, at most 256 chars long, and a path, a COM port with a number
\* of 1..255 and nothing after it, or a reserved name.
C30_DevicePathExact ==
    verdict.call = "validate_device_path" =>
        (verdict.thrown = "none" <=>
            /\ Len(text) \in 1..MAX_DEVICE_PATH_LENGTH
            /\ UnixPath(text) \/ ComPort(text) \/ Reserved(text))

\* C30, what holds: every string of the three forms and of at most 256
\* chars is accepted, and what is accepted and is not a path or a reserved
\* name begins with COM.
C30_DevicePathsAccepted ==
    verdict.call = "validate_device_path" =>
        /\ (/\ Len(text) \in 1..MAX_DEVICE_PATH_LENGTH
            /\ UnixPath(text) \/ ComPort(text) \/ Reserved(text)) =>
               verdict.thrown = "none"
        /\ verdict.thrown = "none" =>
               \/ UnixPath(text) \/ Reserved(text)
               \/ Len(text) >= 4 /\ SubSeq(text, 1, 3) = <<"C", "O", "M">>

\* C30, the case itself: COM1 followed by a letter was accepted.
C30_ComTail ==
    /\ verdict = [call |-> "validate_device_path", thrown |-> "none"]
    /\ text = <<"C", "O", "M", "1", "a">>

\* Four dot-separated fields, each one or more digits.
FourDigitFields(str) ==
    /\ Len(split(str, ".")) = 4
    /\ \A k \in 1..4 :
           /\ split(str, ".")[k] # <<>>
           /\ \A i \in 1..Len(split(str, ".")[k]) : isdigit(split(str, ".")[k][i])

\* C40 as stated: validate_host accepts a string of four dot-separated
\* all-digit fields only if every field is in 0..255 without a leading
\* zero; 256.1.1.1 and 01.2.3.4 throw.
C40_HostIpv4Rule ==
    (/\ verdict.call = "validate_host"
     /\ FourDigitFields(text)
     /\ verdict.thrown = "none") => DottedQuad(text)

\* C40, what holds: validate_ipv4_address rejects those strings, and
\* validate_host accepts every string of four all-digit fields.
C40_HostAcceptsDigits ==
    /\ (verdict.call = "validate_host" /\ FourDigitFields(text)) =>
           verdict.thrown = "none"
    /\ (/\ verdict.call = "validate_ipv4_address"
        /\ FourDigitFields(text) /\ ~DottedQuad(text)) =>
           verdict.thrown = "ValidationException"

\* C40, the case itself: a host with an octet above 255 was accepted.
C40_OutOfRange ==
    /\ verdict = [call |-> "validate_host", thrown |-> "none"]
    /\ text = <<"2", "5", "6", ".", "0", ".", "0", ".", "0">>

\* C39: for every string, the empty one and strings with NUL or newline
\* included, string_to_uint8 gives as many bytes as the string has chars,
\* each the char's value as a uint8_t, and uint8_to_string of those bytes
\* is the string again, the same length and order.
C39_RoundTrip ==
    /\ verdict.call # "none" =>
           /\ Len(bytes) = Len(text)
           /\ \A i \in 1..Len(text) :
                  bytes[i] \in 0..255 /\ (bytes[i] - text[i]) % 256 = 0
    /\ verdict.call = "uint8_to_string" => back = text

\* C39 witness: a string with a NUL, a newline and a char with the top bit
\* set went to bytes and back.
C39_Witness ==
    /\ verdict.call = "uint8_to_string"
    /\ text = <<0, NL, -23>>
    /\ bytes = <<0, 10, 233>>
    /\ back = text

\* The answers of the queries on the rings.
RingAnswers ==
    [c \in Components |->
        [has |-> has_errors(c),
         errors |-> get_errors_by_component(c),
         count |-> [i \in 1..Len(ErrorLevels) |-> get_error_count(c, ErrorLevels[i])]]]

\* C37: reset_stats zeroes the statistics and leaves the rings (and with
\* them the answers of has_errors, get_errors_by_component and
\* get_error_count), the subscribers, the minimum level and the enabled
\* flag as they were; set_min_error_level, set_enabled and clear_callbacks
\* leave statistics and rings as they were.
C37_AdminFrame ==
    /\ [][reset_stats =>
             /\ stats_' = NoStats
             /\ UNCHANGED <<recent_errors_, errors_by_component_, callbacks_,
                            min_level_, enabled_>>
             /\ RingAnswers' = RingAnswers]_vars
    /\ [][(\/ \E i \in 1..Len(ErrorLevels) : set_min_error_level(ErrorLevels[i])
           \/ \E enabled \in BOOLEAN : set_enabled(enabled)
           \/ clear_callbacks) =>
             UNCHANGED <<stats_, recent_errors_, errors_by_component_>>]_vars

\* C37 witness: an error was recorded and the statistics were reset; the
\* statistics are zero, the rings still hold the error and has_errors still
\* answers true for its component.
C37_Witness ==
    /\ Len(log) = 1 /\ reset_at = 1
    /\ stats_ = NoStats
    /\ recent_errors_ = log
    /\ has_errors(log[1].component)
    /\ get_error_count(log[1].component, log[1].level) = 1


\* The error handler called from several threads at once.
LockNext ==
    \/ \E t \in Threads : \E call \in LockedCalls : Enter(t, call)
    \/ \E t \in Threads : lock(t)
    \/ \E t \in Threads : unlock(t)

\* A thread that can take a free mutex, or leave a scope, does so.
LockSpec ==
    /\ InitAside
    /\ [][LockNext]_vars
    /\ \A t \in Threads : WF_vars(lock(t)) /\ WF_vars(unlock(t))

\* The mutexes are owned by the threads inside the scopes that lock them.
LockOrdered ==
    \A t \in Threads : ~(stats_mutex_ = t /\ Wants(t) = "mutex_")

\* C38: no thread ever waits for mutex_ while it owns stats_mutex_ (the two
\* mutexes are always taken main first, statistics second), and with any
\* threads calling report_error, register_callback, clear_callbacks,
\* get_error_stats, reset_stats and the queries at once, every call that
\* was entered eventually returns.
C38_EveryCallReturns ==
    /\ []LockOrdered
    /\ \A t \in Threads : (at[t].call # "none") ~> (at[t].call = "none")

\* A report that owns mutex_ waits for stats_mutex_ while another thread
\* owns it.
C38_Witness ==
    \E t, u \in Threads :
        /\ t # u
        /\ mutex_ = t /\ at[t].call = "report_error" /\ Wants(t) = "stats_mutex_"
        /\ stats_mutex_ = u


\* A server constructed on a port whose client limit is set and changed at
\* any time, before start() and while it runs.
LimitNext ==
    \/ Settled /\ Start
    \/ Stop
    \/ \E n \in 0..MaxLimit : SetClientLimit(n)
    \/ SetUnlimitedClients
    \/ \E c \in Chans : RunPosted(c)
    \/ \E c \in Chans : BindOk(c)
    \/ \E c \in Chans : Accept(c)

LimitSpec ==
    InitAside /\ [][LimitNext]_vars

\* C36: the admission setting of the transport server is the one the most
\* recent of set_client_limit(n) and set_unlimited_clients() asks for,
\* whether that call came before or after start(): after set_client_limit(n)
\* (the wrapper holds n with the limit enabled) the transport is capped at n,
\* as a call on the running server leaves it, for every n including 0; after
\* set_unlimited_clients() it has no cap.
C36_LastCallDecides ==
    HasServer =>
        IF client_limit_enabled_
        THEN chan[channel_] = ChanSetClientLimit(chan[channel_], max_clients_)
        ELSE chan[channel_] = ChanSetUnlimitedClients(chan[channel_])


\* C35: is_listening() implies that the server is started and holds a
\* channel; in particular is_listening() is false once stop() has returned,
\* whether or not the channel has delivered Closed by then.
C35_ListeningImpliesStarted ==
    is_listening_ => started_ /\ channel_ # 0


\* A server of either construction that is started, stopped and started
\* again while its port retry and its multi-client connect handler are set.
RestartNext ==
    \/ Settled /\ Start
    \/ Stop
    \/ \E enable \in BOOLEAN : \E k \in 0..MaxRetries : \E ms \in 1..MaxInterval :
           EnablePortRetry(enable, k, ms)
    \/ \E h \in HandlerIds : OnMultiConnect(h)
    \/ \E c \in Chans : RunPosted(c)
    \/ \E c \in Chans : BindOk(c)

RestartSpec ==
    InitBind /\ [][RestartNext]_vars

\* C34: over every sequence of start() and stop() a started server has a
\* channel, and every channel the server runs on, the first as the later
\* ones, is configured with the same port, for both constructors.
C34_RestartKeepsConfiguration ==
    /\ started_ => channel_ # 0
    /\ \A c, d \in Chans :
           (chan[c].kind # "none" /\ chan[d].kind # "none")
               => chan[c].port = chan[d].port


\* The sizes buffers are asked for: none, what the smallest class holds,
\* one byte more, and more than the largest class holds.
Sizes ==
    {0, SMALL, SMALL + 1, XLARGE + 1}

\* The memory pool used by several threads: each acquires buffers and
\* releases those it owns, with the size it asked for; old buffers are
\* cleaned up.
PoolNext ==
    \/ \E t \in Threads : \E size \in Sizes : acquire(t, size)
    \/ \E t \in Threads : \E buffer \in owned[t] : release(t, buffer, buffer.size)
    \/ \E t \in Threads : \E size \in {0, SMALL} : release(t, NullBuffer, size)
    \/ \E old \in SUBSET (UNION {FreeData(buckets_[b]) : b \in DOMAIN buckets_}) :
           cleanup_old_buffers(old)

PoolSpec ==
    InitAside /\ [][PoolNext]_vars

\* The byte arrays a bucket tracks, in use and free.
InUse(bucket) ==
    {i \in 1..Len(bucket.buffers_) : bucket.buffers_[i].in_use}

OnFreeList(bucket) ==
    {bucket.free_indices_[k] : k \in 1..Len(bucket.free_indices_)}

====
